---- MODULE Spec2Model ----
(***************************************************************************)
(* Protocol V4 of MySerial/SerialCommunicator.cpp: the Selective Repeat    *)
(* ARQ transfer core.  One send phase (sender thread, ACK-listener thread, *)
(* session monitor) on one peer and the matching receive phase on the      *)
(* other peer, joined by the two directions of the serial link.            *)
(*                                                                         *)
(* The session around the two transfer phases (handshake, READY            *)
(* rendezvous, Results exchange, the return of main) is the second state   *)
(* machine of the module; it shares no variable with the first.            *)
(***************************************************************************)
EXTENDS Integers, Sequences, FiniteSets, TLC

VARIABLES
    dir,                    \* "c2s": Phase 1 (client sends), "s2c": Phase 2 (server sends)
    baseSeq,                \* WindowManager::baseSeq
    windowSize,             \* WindowManager::windowSize
    ackedFrames,            \* WindowManager::ackedFrames, a std::map as a set of <<key, value>>
    consecutiveSuccesses,   \* WindowManager::consecutiveSuccesses
    consecutiveFailures,    \* WindowManager::consecutiveFailures
    frames,                 \* TransmissionManager::frames_
    txCount,                \* history: per frame, the times it was written to the link
                            \* (kept by SenderBurstCounted)
    retransmitCount,        \* Results::retransmitCount of the sending peer
    stopped,                \* TransmissionManager::stopped_
    senderPc,               \* senderThreadFunc: "loop" | "exit"
    listenerPc,             \* receiverThreadFunc: "loop" | "exit"
    sessPc,                 \* the sending session: "monitor" | "stopping" | "drained"
    dataChan,               \* link, sender -> receiver: data frames in flight
    ackChan,                \* link, receiver -> sender: ACK frames in flight
    faults,                 \* the number of link faults so far
    receivedFrames,         \* the receiver's std::map<int, DataFrame>, as the set of its values
    nextExpectedFrame,      \* the receiver's cursor
    receivedNum,            \* Results::receivedNum of the receiving peer
    totalReceivedBytes,     \* Results::totalReceivedBytes of the receiving peer
    errorCount,             \* Results::errorCount of the receiving peer
    ackFrame,               \* the receiver's AckFrame object
    recvPc,                 \* the receive loop: "loop" | "validate" | "done"
    frame,                  \* the DataFrame the receive loop has deserialized
    ackWritten,             \* an ACK for `frame` has been written to the link
    adjustLog,              \* history: the last three adjustWindow calls
    pc,                     \* clientMode / serverMode: the position of each peer
    link,                   \* the session's link: what is in flight towards each peer
    acked,                  \* per peer, the frames of its send phase that are acknowledged
    stored,                 \* per peer, the frames its receive phase has stored
    attempts,               \* waitForReadyAck: attempts of each peer, 0 outside the call
    attempt,                \* readResults: attempt of each peer, 1 outside the call
    exitCode,               \* main: the value returned, -1 while the process runs
    wrote,                  \* history: the kinds of message each peer has written
    readKinds,              \* history: the kinds of message each peer has accepted
    linkFaults,             \* the number of faults of the session's link so far
    readMutex,              \* SerialPort::readMutex of each peer: its owner, or "free"
    writeMutex,             \* SerialPort::writeMutex of each peer: its owner, or "free"
    portPc,                 \* per peer and thread, its position in a SerialPort call
    call                    \* a call of a function on its own: its arguments, then its result

vars == <<dir, baseSeq, windowSize, ackedFrames, consecutiveSuccesses,
          consecutiveFailures, frames, txCount, retransmitCount, stopped, senderPc,
          listenerPc, sessPc, dataChan, ackChan, faults, receivedFrames,
          nextExpectedFrame, receivedNum, totalReceivedBytes, errorCount,
          ackFrame, recvPc, frame, ackWritten, adjustLog, pc, link, acked,
          stored, attempts, attempt, exitCode, wrote, readKinds, linkFaults,
          readMutex, writeMutex, portPc, call>>

portVars == <<readMutex, writeMutex, portPc>>

modeVars == <<pc, link, acked, stored, attempts, attempt, exitCode, wrote,
              readKinds, linkFaults>>

\* what a step of a transfer phase leaves alone
sessionVars == <<modeVars, portVars, call>>

windowVars == <<baseSeq, windowSize, ackedFrames, consecutiveSuccesses,
                consecutiveFailures>>

sendVars == <<frames, txCount, retransmitCount, stopped, senderPc, listenerPc, sessPc>>

recvVars == <<receivedFrames, nextExpectedFrame, receivedNum,
              totalReceivedBytes, errorCount, ackFrame, recvPc, frame,
              ackWritten>>

linkVars == <<dataChan, ackChan, faults>>

(***************************************************************************)
(* Bounds of the model.                                                    *)
(***************************************************************************)
NumFrames == 3      \* Settings::num, the frame count of the session
PayloadSize == 2    \* Settings::datasize, the payload bytes per frame
MaxChan == 1        \* frames (ACKs) in flight below which a write goes through
MaxFaults == 1      \* link faults in one run
SessFrames == 2     \* Settings::num in the session around the two phases
MaxTotal == 5       \* the frame counts of a WindowManager called on its own

(***************************************************************************)
(* Protocol constants.                                                     *)
(***************************************************************************)
SOF == 2
SOF_ACK == 4
EOF_BYTE == 3
WINDOW_SIZE_INIT == 16
WINDOW_SIZE_MAX == 32
WINDOW_SIZE_MIN == 4
FRAME_OVERHEAD_V3 == 10
RttHigh == 2000
RttAssumed == 100
PROTOCOL_VERSION == 4
MAX_RETRANSMIT_ATTEMPTS == 5
ACK_FRAME_SIZE == 13
MAX_ATTEMPTS == 300
BASE_TIMEOUT_MS == 500
READY_ACK_LEN == 7
maxRetries == 3

Peers == {"client", "server"}

Other(p) == IF p = "client" THEN "server" ELSE "client"

\* the threads of a peer that call its SerialPort
PortThreads == {"session", "sender", "listener"}

\* a thread outside every SerialPort call
Idle == [op |-> "none", at |-> "idle"]

totalFrames == NumFrames

Max(a, b) == IF a > b THEN a ELSE b

Min(a, b) == IF a < b THEN a ELSE b

(***************************************************************************)
(* Codec: the XOR-rotate checksum over 16 bits, and the payload patterns.  *)
(***************************************************************************)
RECURSIVE Xor(_, _)
Xor(a, b) ==
    IF a = 0 THEN b
    ELSE IF b = 0 THEN a
    ELSE (((a % 2) + (b % 2)) % 2) + (2 * Xor(a \div 2, b \div 2))

RotateLeft16(sum) == ((sum * 2) % 65536) + (sum \div 32768)

RECURSIVE ChecksumFrom(_, _, _)
ChecksumFrom(payload, i, sum) ==
    IF i > Len(payload) THEN sum
    ELSE ChecksumFrom(payload, i + 1, RotateLeft16(Xor(sum, payload[i])))

calculateChecksum(payload) == ChecksumFrom(payload, 1, 0)

\* mutant: the checksum is never verified
verifyChecksumSkipped(f) == TRUE

verifyChecksum(f) == f.checksum = calculateChecksum(f.payload)

\* byte j (from 0) of the payload the sender of direction d prepares
PatternByte(d, j) == IF d = "c2s" THEN j % 256 ELSE 255 - (j % 256)

PatternPayload(d) == [j \in 1..PayloadSize |-> PatternByte(d, j - 1)]

\* mutant: the payload pattern is never checked
payloadOkSkipped(d, f) == TRUE

\* the receiver's payload check: it expects the pattern of its direction
payloadOk(d, f) ==
    \A j \in 1..Len(f.payload) : f.payload[j] = PatternByte(d, j - 1)

PreparedFrame(d, i) ==
    [sof |-> SOF, frameNum |-> i, windowSize |-> WINDOW_SIZE_INIT,
     checksum |-> calculateChecksum(PatternPayload(d)),
     payload |-> PatternPayload(d), eof |-> EOF_BYTE]

\* DataFrame::deserialize: only the SOF and EOF bytes decide
deserialize(f) == f.sof = SOF /\ f.eof = EOF_BYTE

\* mutant: the size of the payload alone
frameSizePayloadOnly == PayloadSize

frameSize == PayloadSize + FRAME_OVERHEAD_V3

(***************************************************************************)
(* WindowManager.                                                          *)
(***************************************************************************)
isAcked(frameNum) == <<frameNum, TRUE>> \in ackedFrames

MarkedMap(m, frameNum) ==
    (m \ {<<frameNum, FALSE>>}) \cup {<<frameNum, TRUE>>}

isComplete == baseSeq >= totalFrames

\* slideWindow: the loop reads ackedFrames[baseSeq], which creates a false
\* entry when the key is absent
RECURSIVE SlideFrom(_, _, _)
SlideFrom(m, b, n) ==
    IF b < totalFrames
    THEN IF <<b, TRUE>> \in m
         THEN SlideFrom(m \ {<<b, TRUE>>}, b + 1, n + 1)
         ELSE [acked |-> m \cup {<<b, FALSE>>}, base |-> b, slid |-> n]
    ELSE [acked |-> m, base |-> b, slid |-> n]

\* mutant: the slide loop without its baseSeq < totalFrames test
RECURSIVE SlideUnguarded(_, _, _)
SlideUnguarded(m, b, n) ==
    IF <<b, TRUE>> \in m
    THEN SlideUnguarded(m \ {<<b, TRUE>>}, b + 1, n + 1)
    ELSE [acked |-> m \cup {<<b, FALSE>>}, base |-> b, slid |-> n]

slideWindowUnguarded(m, b) == SlideUnguarded(m, b, 0)

\* mutant: an if in place of the while, one position at most
slideWindowOneStep(m, b) ==
    IF b < totalFrames
    THEN IF <<b, TRUE>> \in m
         THEN [acked |-> m \ {<<b, TRUE>>}, base |-> b + 1, slid |-> 1]
         ELSE [acked |-> m \cup {<<b, FALSE>>}, base |-> b, slid |-> 0]
    ELSE [acked |-> m, base |-> b, slid |-> 0]

slideWindow(m, b) == SlideFrom(m, b, 0)

\* mutant: doubling without the cap
GrownSizeUncapped(w) == w * 2

GrownSize(w) ==
    IF w * 2 > WINDOW_SIZE_MAX THEN WINDOW_SIZE_MAX ELSE w * 2

\* mutant: halving without the floor
ShrunkSizeUnfloored(w) == w \div 2

ShrunkSize(w) == Max(w \div 2, WINDOW_SIZE_MIN)

\* mutant: the window grows on the fifth success in a row, not the third
adjustWindowFiveSuccesses(w, s, f, success, rtt) ==
    IF success
    THEN LET s1 == s + 1
             grow == s1 >= 5
             w1 == IF grow THEN GrownSize(w) ELSE w
             s2 == IF grow THEN 0 ELSE s1
             high == rtt > RttHigh
         IN  [size |-> IF high THEN ShrunkSize(w1) ELSE w1,
              succ |-> IF high THEN 0 ELSE s2,
              fail |-> 0]
    ELSE LET f1 == f + 1
             shrink == f1 >= 3
         IN  [size |-> IF shrink THEN ShrunkSize(w) ELSE w,
              succ |-> 0,
              fail |-> IF shrink THEN 0 ELSE f1]

\* mutant: a success leaves the count of failures as it is
adjustWindowKeepsFailures(w, s, f, success, rtt) ==
    IF success
    THEN LET s1 == s + 1
             grow == s1 >= 3
             w1 == IF grow THEN GrownSize(w) ELSE w
             s2 == IF grow THEN 0 ELSE s1
             high == rtt > RttHigh
         IN  [size |-> IF high THEN ShrunkSize(w1) ELSE w1,
              succ |-> IF high THEN 0 ELSE s2,
              fail |-> f]
    ELSE LET f1 == f + 1
             shrink == f1 >= 3
         IN  [size |-> IF shrink THEN ShrunkSize(w) ELSE w,
              succ |-> 0,
              fail |-> IF shrink THEN 0 ELSE f1]

\* mutant: the window shrinks on the second failure in a row
adjustWindowTwoFailures(w, s, f, success, rtt) ==
    IF success
    THEN LET s1 == s + 1
             grow == s1 >= 3
             w1 == IF grow THEN GrownSize(w) ELSE w
             s2 == IF grow THEN 0 ELSE s1
             high == rtt > RttHigh
         IN  [size |-> IF high THEN ShrunkSize(w1) ELSE w1,
              succ |-> IF high THEN 0 ELSE s2,
              fail |-> 0]
    ELSE LET f1 == f + 1
             shrink == f1 >= 2
         IN  [size |-> IF shrink THEN ShrunkSize(w) ELSE w,
              succ |-> 0,
              fail |-> IF shrink THEN 0 ELSE f1]

\* mutant: a high RTT halves the size the call found and nothing grows
adjustWindowRttFirst(w, s, f, success, rtt) ==
    IF success
    THEN LET s1 == s + 1
             grow == s1 >= 3
             high == rtt > RttHigh
         IN  [size |-> IF high THEN ShrunkSize(w)
                       ELSE IF grow THEN GrownSize(w) ELSE w,
              succ |-> IF high \/ grow THEN 0 ELSE s1,
              fail |-> 0]
    ELSE LET f1 == f + 1
             shrink == f1 >= 3
         IN  [size |-> IF shrink THEN ShrunkSize(w) ELSE w,
              succ |-> 0,
              fail |-> IF shrink THEN 0 ELSE f1]

\* adjustWindow(success, rtt) on window size w and counters s, f
adjustWindow(w, s, f, success, rtt) ==
    IF success
    THEN LET s1 == s + 1
             grow == s1 >= 3
             w1 == IF grow THEN GrownSize(w) ELSE w
             s2 == IF grow THEN 0 ELSE s1
             high == rtt > RttHigh
         IN  [size |-> IF high THEN ShrunkSize(w1) ELSE w1,
              succ |-> IF high THEN 0 ELSE s2,
              fail |-> 0]
    ELSE LET f1 == f + 1
             shrink == f1 >= 3
         IN  [size |-> IF shrink THEN ShrunkSize(w) ELSE w,
              succ |-> 0,
              fail |-> IF shrink THEN 0 ELSE f1]

\* history of adjustWindow calls: the kind of a call and the window size
\* it found, for the last three calls
AdjustKind(success, rtt) ==
    IF ~success THEN "fail" ELSE IF rtt > RttHigh THEN "high" ELSE "ok"

Logged(log, success, rtt, w) ==
    LET l == Append(log, [kind |-> AdjustKind(success, rtt), before |-> w])
    IN  IF Len(l) > 3 THEN Tail(l) ELSE l

\* the loop of getFramesToSend from position i, on the map m of a window
\* of base b, size w and n frames in all
RECURSIVE FramesFrom(_, _, _, _, _)
FramesFrom(m, i, b, w, n) ==
    IF i < b + w /\ i < n
    THEN (IF <<i, TRUE>> \in m THEN <<>> ELSE <<i>>) \o FramesFrom(m, i + 1, b, w, n)
    ELSE <<>>

\* mutant: the loop starts at frame 0, not at the base
getFramesToSendFromZero == FramesFrom(ackedFrames, 0, baseSeq, windowSize, totalFrames)

\* mutant: the loop without its test against baseSeq + windowSize
FramesInWindowUnbounded(m, b, w, n) == FramesFrom(m, b, b, n, n)

\* getFramesToSend on the map m of a window of base b, size w, n frames
FramesInWindow(m, b, w, n) == FramesFrom(m, b, b, w, n)

getFramesToSend == FramesInWindow(ackedFrames, baseSeq, windowSize, totalFrames)

(***************************************************************************)
(* AckFrame.                                                               *)
(***************************************************************************)
\* bit `offset` of a 32-bit bitmap
BitSet(bitmap, offset) == ((bitmap \div (2 ^ offset)) % 2) = 1

\* AckFrame::isAcked(frameNum)
ackIsAcked(a, frameNum) ==
    LET offset == frameNum - a.baseFrameNum
    IN  IF offset < 0 \/ offset >= 32 THEN FALSE ELSE BitSet(a.bitmap, offset)

\* AckFrame::setAck(frameNum) on an ACK with the given base and bitmap
setAck(base, bitmap, frameNum) ==
    LET offset == frameNum - base
    IN  IF offset >= 0 /\ offset < 32 /\ ~BitSet(bitmap, offset)
        THEN bitmap + (2 ^ offset)
        ELSE bitmap

\* mutant: a cumulative ACK that names the cursor, not the frame read
ImmediateAckCumulative(f) ==
    [baseFrameNum |-> nextExpectedFrame, bitmap |-> 1]

\* the receiver's ACK for the frame it has just read
ImmediateAck(f) ==
    [baseFrameNum |-> f.frameNum, bitmap |-> setAck(f.frameNum, 0, f.frameNum)]

\* AckFrame::serialize
ackSerialize(a) ==
    [sof |-> SOF_ACK, lit |-> "ACK", baseFrameNum |-> a.baseFrameNum,
     bitmap |-> a.bitmap, eof |-> EOF_BYTE]

\* mutant: the last byte is not compared with EOF_BYTE
ackDeserializeNoEof(m) == m.sof = SOF_ACK /\ m.lit = "ACK"

\* AckFrame::deserialize
ackDeserialize(m) == m.sof = SOF_ACK /\ m.eof = EOF_BYTE /\ m.lit = "ACK"

(***************************************************************************)
(* The link's transmit queues.  A write goes through while fewer than      *)
(* MaxChan data frames are queued ahead of it; a 13-byte ACK is shorter    *)
(* than any data frame, so one more of them fits.                          *)
(***************************************************************************)
DataLinkReady == Len(dataChan) < MaxChan

\* the bytes a message in flight still holds: what is left of a message a
\* read has cut into, the 13 bytes of an ACK frame, or a whole data frame
Size(m) ==
    IF "junk" \in DOMAIN m THEN m.junk
    ELSE IF "lit" \in DOMAIN m THEN ACK_FRAME_SIZE
    ELSE frameSize

RECURSIVE Avail(_)
Avail(q) == IF q = <<>> THEN 0 ELSE Size(Head(q)) + Avail(Tail(q))

\* the stream after a read has taken n bytes off its front
RECURSIVE DropBytes(_, _)
DropBytes(q, n) ==
    IF n = 0 \/ q = <<>> THEN q
    ELSE IF Size(Head(q)) <= n THEN DropBytes(Tail(q), n - Size(Head(q)))
    ELSE <<[junk |-> Size(Head(q)) - n]>> \o Tail(q)

\* the next ACK_FRAME_SIZE bytes of the stream are one whole message
Aligned(q) ==
    /\ q # <<>>
    /\ "junk" \notin DOMAIN Head(q)
    /\ Size(Head(q)) = ACK_FRAME_SIZE

AckLinkReady == Len(ackChan) <= MaxChan

(***************************************************************************)
(* The state after construction, at the start of one transfer phase.       *)
(***************************************************************************)
NoFrame ==
    [sof |-> SOF, frameNum |-> 0, windowSize |-> 0, checksum |-> 0,
     payload |-> <<>>, eof |-> EOF_BYTE]

InitWindow ==
    /\ baseSeq = 0
    /\ windowSize = WINDOW_SIZE_INIT
    /\ ackedFrames = {}
    /\ consecutiveSuccesses = 0
    /\ consecutiveFailures = 0

\* the start of the phase of direction d, with the bytes `stream` already
\* in the receive buffer of the sending peer
InitPhase(d, stream) ==
    /\ dir = d
    /\ InitWindow
    /\ frames = [i \in 0..(NumFrames - 1) |-> PreparedFrame(dir, i)]
    /\ txCount = [i \in 0..(NumFrames - 1) |-> 0]
    /\ retransmitCount = 0
    /\ stopped = FALSE
    /\ senderPc = "loop"
    /\ listenerPc = "loop"
    /\ sessPc = "monitor"
    /\ dataChan = <<>>
    /\ ackChan = stream
    /\ faults = 0
    /\ receivedFrames = {}
    /\ nextExpectedFrame = 0
    /\ receivedNum = 0
    /\ totalReceivedBytes = 0
    /\ errorCount = 0
    /\ ackFrame = [baseFrameNum |-> 0, bitmap |-> 0]
    /\ recvPc = "loop"
    /\ frame = NoFrame
    /\ ackWritten = FALSE
    /\ adjustLog = <<>>
    /\ pc = [p \in Peers |-> "open"]
    /\ link = [p \in Peers |-> <<>>]
    /\ acked = [p \in Peers |-> {}]
    /\ stored = [p \in Peers |-> {}]
    /\ attempts = [p \in Peers |-> 0]
    /\ attempt = [p \in Peers |-> 1]
    /\ exitCode = [p \in Peers |-> -1]
    /\ wrote = [p \in Peers |-> {}]
    /\ readKinds = [p \in Peers |-> {}]
    /\ linkFaults = 0
    /\ readMutex = [p \in Peers |-> "free"]
    /\ writeMutex = [p \in Peers |-> "free"]
    /\ portPc = [p \in Peers |-> [t \in PortThreads |-> Idle]]

\* no function is called on its own
NoCall == [op |-> "none", done |-> FALSE]

InitWith(d, stream) == InitPhase(d, stream) /\ call = NoCall

Init == \E d \in {"c2s", "s2c"} : InitWith(d, <<>>)

(***************************************************************************)
(* The sending peer: sender thread, ACK-listener thread, session monitor.  *)
(***************************************************************************)
\* the history of transmissions counts up to one past MAX_RETRANSMIT_ATTEMPTS
TxCap == MAX_RETRANSMIT_ATTEMPTS + 1

\* the counts after the frames ks went out once more
Transmitted(ks) ==
    [i \in DOMAIN txCount |-> IF i \in ks THEN Min(txCount[i] + 1, TxCap)
                                          ELSE txCount[i]]

\* mutant: a worker gives up once a frame has gone out
\* MAX_RETRANSMIT_ATTEMPTS times
WorkerRunsCapped ==
    /\ ~stopped
    /\ ~isComplete
    /\ \A i \in DOMAIN txCount : txCount[i] < MAX_RETRANSMIT_ATTEMPTS

\* the loop condition of both workers: while (!stopped_ && !isComplete())
WorkerRuns == ~stopped /\ ~isComplete

\* mutant: the burst limit of small frames at every frame size
burstLimitSmallFrames(size) == 16

\* the burst limit senderThreadFunc derives from the size of frame 0
burstLimit(size) ==
    IF size > 50000 THEN 1
    ELSE IF size > 10000 THEN 4
    ELSE IF size > 1000 THEN 8
    ELSE 16

maxBurstFrames == burstLimit(frameSize)

\* std::min(framesToSend.size(), maxBurstFrames)
BurstSize(framesToSend, limit) == Min(Len(framesToSend), limit)

\* one iteration of the sender loop with frames to send: the burst is
\* written whole, or the write fails after a part of it went out; the
\* history of transmissions is kept where `observed` says so
SenderIteration(observed) ==
    /\ senderPc = "loop"
    /\ WorkerRuns
    /\ LET framesToSend == getFramesToSend
           burstSize == BurstSize(framesToSend, maxBurstFrames)
           stamped == [i \in DOMAIN frames |->
                         IF \E j \in 1..burstSize : framesToSend[j] = i
                         THEN [frames[i] EXCEPT !.windowSize = windowSize]
                         ELSE frames[i]]
           burst == [j \in 1..burstSize |-> stamped[framesToSend[j]]]
       IN  /\ framesToSend # <<>>
           /\ frames' = stamped
           /\ \/ /\ DataLinkReady
                 /\ dataChan' = dataChan \o burst
                 /\ txCount' = IF observed
                               THEN Transmitted({framesToSend[j] : j \in 1..burstSize})
                               ELSE txCount
                 /\ UNCHANGED <<windowVars, retransmitCount, faults, adjustLog>>
              \/ /\ faults < MaxFaults
                 /\ \E k \in 0..(burstSize - 1) :
                       /\ dataChan' = dataChan \o SubSeq(burst, 1, k)
                       /\ txCount' = IF observed
                                     THEN Transmitted({framesToSend[j] : j \in 1..k})
                                     ELSE txCount
                 /\ faults' = faults + 1
                 /\ retransmitCount' = retransmitCount + burstSize
                 /\ LET r == adjustWindow(windowSize, consecutiveSuccesses,
                                          consecutiveFailures, FALSE, 0)
                    IN  /\ windowSize' = r.size
                        /\ consecutiveSuccesses' = r.succ
                        /\ consecutiveFailures' = r.fail
                 /\ adjustLog' = Logged(adjustLog, FALSE, 0, windowSize)
                 /\ UNCHANGED <<baseSeq, ackedFrames>>
    /\ UNCHANGED <<dir, sessionVars, stopped, senderPc, listenerPc, sessPc, ackChan, recvVars>>

SenderBurst == SenderIteration(FALSE)

\* the same iteration, with the history of transmissions kept
SenderBurstCounted == SenderIteration(TRUE)

SenderExit ==
    /\ senderPc = "loop"
    /\ ~WorkerRuns
    /\ senderPc' = "exit"
    /\ UNCHANGED <<dir, sessionVars, adjustLog, windowVars, frames, txCount, retransmitCount, stopped,
                   listenerPc, sessPc, linkVars, recvVars>>

\* mutant: the loop without its test of the frame number against the
\* frame count
NewlyAckedUnbounded(a) ==
    {k \in (a.baseFrameNum)..(a.baseFrameNum + 30) : ackIsAcked(a, k) /\ ~isAcked(k)}

\* the frames an ACK newly acknowledges: the loop runs over 32 bits and
\* stops at the first frame number that is not below the frame count
NewlyAcked(a) ==
    {a.baseFrameNum + i : i \in 0..31} \cap
    {k \in (a.baseFrameNum)..(totalFrames - 1) : ackIsAcked(a, k) /\ ~isAcked(k)}

RECURSIVE MarkAll(_, _)
MarkAll(m, ks) ==
    IF ks = {} THEN m
    ELSE LET k == CHOOSE x \in ks : TRUE
         IN  MarkAll(MarkedMap(m, k), ks \ {k})

\* one iteration of the listener loop that reads a full 13-byte ACK frame
ListenerAck ==
    /\ listenerPc = "loop"
    /\ WorkerRuns
    /\ Aligned(ackChan)
    /\ ackChan' = Tail(ackChan)
    /\ LET m == Head(ackChan)
           newly == IF ackDeserialize(m) THEN NewlyAcked(m) ELSE {}
       IN  IF newly # {}
           THEN LET r == adjustWindow(windowSize, consecutiveSuccesses,
                                      consecutiveFailures, TRUE, RttAssumed)
                    s == slideWindow(MarkAll(ackedFrames, newly), baseSeq)
                IN  /\ windowSize' = r.size
                    /\ consecutiveSuccesses' = r.succ
                    /\ consecutiveFailures' = r.fail
                    /\ ackedFrames' = s.acked
                    /\ baseSeq' = s.base
                    /\ adjustLog' = Logged(adjustLog, TRUE, RttAssumed, windowSize)
           ELSE UNCHANGED <<windowVars, adjustLog>>
    /\ UNCHANGED <<dir, sessionVars, sendVars, dataChan, faults, recvVars>>

\* one iteration of the listener loop whose 13 bytes are no whole message:
\* they start inside a frame or run over the end of one, and no such read
\* begins with SOF_ACK 'A' 'C' 'K'
ListenerMisread ==
    /\ listenerPc = "loop"
    /\ WorkerRuns
    /\ ackChan # <<>>
    /\ ~Aligned(ackChan)
    /\ Avail(ackChan) >= ACK_FRAME_SIZE
    /\ ackChan' = DropBytes(ackChan, ACK_FRAME_SIZE)
    /\ UNCHANGED <<dir, sessionVars, adjustLog, windowVars, sendVars, dataChan, faults,
                   recvVars>>

\* one iteration of the listener loop whose read times out with fewer than
\* 13 bytes received: the read is cancelled and what it had taken is gone
ListenerTimeout ==
    /\ listenerPc = "loop"
    /\ WorkerRuns
    /\ ackChan # <<>>
    /\ Avail(ackChan) < ACK_FRAME_SIZE
    /\ ackChan' = <<>>
    /\ UNCHANGED <<dir, sessionVars, adjustLog, windowVars, sendVars, dataChan, faults,
                   recvVars>>

ListenerExit ==
    /\ listenerPc = "loop"
    /\ ~WorkerRuns
    /\ listenerPc' = "exit"
    /\ UNCHANGED <<dir, sessionVars, adjustLog, windowVars, frames, txCount, retransmitCount, stopped,
                   senderPc, sessPc, linkVars, recvVars>>

\* the session's progress monitor leaves its loop and calls stop()
MonitorStop ==
    /\ sessPc = "monitor"
    /\ isComplete
    /\ stopped' = TRUE
    /\ sessPc' = "stopping"
    /\ UNCHANGED <<dir, sessionVars, adjustLog, windowVars, frames, txCount, retransmitCount, senderPc,
                   listenerPc, linkVars, recvVars>>

\* mutant: stop() joins the sender thread only
JoinedSenderOnly == senderPc = "exit"

\* senderThread_.join() and receiverThread_.join() have both returned
Joined == senderPc = "exit" /\ listenerPc = "exit"

\* stop() returns when both threads are joined
MonitorJoin ==
    /\ sessPc = "stopping"
    /\ Joined
    /\ sessPc' = "drained"
    /\ UNCHANGED <<dir, sessionVars, adjustLog, windowVars, frames, txCount, retransmitCount, stopped,
                   senderPc, listenerPc, linkVars, recvVars>>

\* after its send phase the peer's next reader takes what is still on the
\* link; it is no ACK listener of this phase
SenderPeerNextRead ==
    /\ sessPc = "drained"
    /\ ackChan # <<>>
    /\ ackChan' = Tail(ackChan)
    /\ UNCHANGED <<dir, sessionVars, adjustLog, windowVars, sendVars, dataChan, faults, recvVars>>

(***************************************************************************)
(* The receiving peer: the receive loop of serverMode (Phase 1, "c2s") and *)
(* of clientMode (Phase 2, "s2c").                                         *)
(***************************************************************************)
\* receivedFrames.find(k) != receivedFrames.end()
Stored(rf, k) == \E g \in rf : g.frameNum = k

\* mutant: no duplicate check
isDuplicateNever(f) == FALSE

isDuplicate(f) == Stored(receivedFrames, f.frameNum)

\* mutant: an if in place of the inner while, one frame at most
AdvanceCursorOnce(rf, c) == IF Stored(rf, c) THEN c + 1 ELSE c

\* the inner while loop: the cursor passes every stored frame number
RECURSIVE AdvanceCursor(_, _)
AdvanceCursor(rf, c) == IF Stored(rf, c) THEN AdvanceCursor(rf, c + 1) ELSE c

\* a full-length read; with valid SOF and EOF the ACK is written at once,
\* before any other check.  Only the client counts a framing error.
RecvRead ==
    /\ recvPc = "loop"
    /\ dataChan # <<>>
    /\ dataChan' = Tail(dataChan)
    /\ LET f == Head(dataChan)
       IN  IF deserialize(f)
           THEN /\ AckLinkReady
                /\ ackFrame' = ImmediateAck(f)
                /\ ackChan' = Append(ackChan, ackSerialize(ImmediateAck(f)))
                /\ frame' = f
                /\ ackWritten' = TRUE
                /\ recvPc' = "validate"
                /\ UNCHANGED errorCount
           ELSE /\ errorCount' = IF dir = "s2c" THEN errorCount + 1 ELSE errorCount
                /\ UNCHANGED <<ackFrame, ackChan, frame, ackWritten, recvPc>>
    /\ UNCHANGED <<dir, sessionVars, adjustLog, windowVars, sendVars, faults, receivedFrames,
                   nextExpectedFrame, receivedNum, totalReceivedBytes>>

\* the rest of the iteration: duplicate check, checksum, payload pattern,
\* store and cursor advance
RecvValidate ==
    /\ recvPc = "validate"
    /\ frame' = NoFrame
    /\ ackWritten' = FALSE
    /\ IF isDuplicate(frame)
       THEN /\ recvPc' = "loop"
            /\ UNCHANGED <<receivedFrames, nextExpectedFrame, receivedNum,
                           totalReceivedBytes, errorCount>>
       ELSE IF verifyChecksum(frame) /\ payloadOk(dir, frame)
       THEN LET rf == receivedFrames \cup {frame}
                c == AdvanceCursor(rf, nextExpectedFrame)
            IN  /\ receivedFrames' = rf
                /\ totalReceivedBytes' = totalReceivedBytes + frameSize
                /\ nextExpectedFrame' = c
                /\ receivedNum' = receivedNum + (c - nextExpectedFrame)
                /\ recvPc' = IF c < NumFrames THEN "loop" ELSE "done"
                /\ UNCHANGED errorCount
       ELSE /\ errorCount' = errorCount + 1
            /\ recvPc' = "loop"
            /\ UNCHANGED <<receivedFrames, nextExpectedFrame, receivedNum,
                           totalReceivedBytes>>
    /\ UNCHANGED <<dir, sessionVars, adjustLog, windowVars, sendVars, linkVars, ackFrame>>

\* after its receive phase the peer's next reader takes what is still on
\* the link; it writes no ACK
RecvPeerNextRead ==
    /\ recvPc = "done"
    /\ dataChan # <<>>
    /\ dataChan' = Tail(dataChan)
    /\ UNCHANGED <<dir, sessionVars, adjustLog, windowVars, sendVars, ackChan, faults, recvVars>>

(***************************************************************************)
(* The serial link: no integrity guarantee.  A frame in flight may be lost *)
(* or altered.                                                             *)
(***************************************************************************)
DataFaults ==
    {"payloadBit", "payloadAndChecksum", "checksumBit", "numUp", "numDown",
     "sof", "eof"}

AckFaults == {"ackSof", "ackLit", "ackEof", "ackBaseDown", "ackBits"}

Corrupted(f, kind) ==
    CASE kind = "payloadBit" ->
           [f EXCEPT !.payload[1] = Xor(@, 1)]
      [] kind = "payloadAndChecksum" ->
           [f EXCEPT !.payload[Len(f.payload)] = Xor(@, 1),
                     !.checksum = Xor(@, 2)]
      [] kind = "checksumBit" -> [f EXCEPT !.checksum = Xor(@, 1)]
      [] kind = "numUp" -> [f EXCEPT !.frameNum = @ + 1]
      [] kind = "numDown" -> [f EXCEPT !.frameNum = @ - 1]
      [] kind = "sof" -> [f EXCEPT !.sof = 0]
      [] kind = "eof" -> [f EXCEPT !.eof = 0]

CorruptedAck(m, kind) ==
    CASE kind = "ackSof" -> [m EXCEPT !.sof = 0]
      [] kind = "ackLit" -> [m EXCEPT !.lit = "ACJ"]
      [] kind = "ackEof" -> [m EXCEPT !.eof = 0]
      [] kind = "ackBaseDown" -> [m EXCEPT !.baseFrameNum = @ - 1]
      [] kind = "ackBits" -> [m EXCEPT !.bitmap = Xor(@, 2)]

Remove(q, i) == SubSeq(q, 1, i - 1) \o SubSeq(q, i + 1, Len(q))

LoseFrame ==
    /\ faults < MaxFaults
    /\ \E i \in 1..Len(dataChan) : dataChan' = Remove(dataChan, i)
    /\ faults' = faults + 1
    /\ UNCHANGED <<dir, sessionVars, adjustLog, windowVars, sendVars, ackChan, recvVars>>

LoseAck ==
    /\ faults < MaxFaults
    /\ \E i \in 1..Len(ackChan) : ackChan' = Remove(ackChan, i)
    /\ faults' = faults + 1
    /\ UNCHANGED <<dir, sessionVars, adjustLog, windowVars, sendVars, dataChan, recvVars>>

CorruptFrameOf(kinds) ==
    /\ faults < MaxFaults
    /\ \E kind \in kinds, i \in 1..Len(dataChan) :
          dataChan' = [dataChan EXCEPT ![i] = Corrupted(@, kind)]
    /\ faults' = faults + 1
    /\ UNCHANGED <<dir, sessionVars, adjustLog, windowVars, sendVars, ackChan, recvVars>>

CorruptFrame == CorruptFrameOf(DataFaults)

CorruptAck ==
    /\ faults < MaxFaults
    /\ \E kind \in AckFaults, i \in 1..Len(ackChan) :
          /\ "lit" \in DOMAIN ackChan[i]
          /\ ackChan' = [ackChan EXCEPT ![i] = CorruptedAck(@, kind)]
    /\ faults' = faults + 1
    /\ UNCHANGED <<dir, sessionVars, adjustLog, windowVars, sendVars, dataChan, recvVars>>

(***************************************************************************)
(* One transfer phase on a link with every kind of fault.                  *)
(***************************************************************************)
\* every thread but the sender in its loop
OtherThreads ==
    \/ SenderExit
    \/ ListenerAck
    \/ ListenerExit
    \/ MonitorStop
    \/ MonitorJoin
    \/ RecvRead
    \/ RecvValidate
    \/ RecvPeerNextRead

Threads == SenderBurst \/ OtherThreads

Protocol == Threads \/ SenderPeerNextRead

Next ==
    \/ Protocol
    \/ LoseFrame
    \/ LoseAck
    \/ CorruptFrame
    \/ CorruptAck

Spec == Init /\ [][Next]_vars

(***************************************************************************)
(* The threads of both peers are scheduled by the operating system: each   *)
(* loop that can take a step eventually takes it.  The link's faults are   *)
(* under no fairness.                                                      *)
(***************************************************************************)
Fairness ==
    /\ WF_vars(SenderBurst)
    /\ WF_vars(SenderExit)
    /\ WF_vars(ListenerAck)
    /\ WF_vars(ListenerExit)
    /\ WF_vars(MonitorStop)
    /\ WF_vars(MonitorJoin)
    /\ WF_vars(SenderPeerNextRead)
    /\ WF_vars(RecvRead)
    /\ WF_vars(RecvValidate)
    /\ WF_vars(RecvPeerNextRead)

\* a link whose only fault is a flipped payload bit
CorruptPayload == CorruptFrameOf({"payloadBit"})

NextCorrupt == Protocol \/ CorruptPayload

SpecCorrupt == Init /\ [][NextCorrupt]_vars /\ Fairness

\* the same link when only the two workers' way out of their loops is
\* scheduled fairly: a worker whose loop condition has become false
\* eventually returns
ExitFairness ==
    /\ WF_vars(SenderExit)
    /\ WF_vars(ListenerExit)

SpecCorruptExits == Init /\ [][NextCorrupt]_vars /\ ExitFairness

\* a link that loses data frames and ACKs, MaxFaults of them in all, and
\* delivers everything else.  The receiver stores every frame it ACKs here,
\* so the last ACK it writes is the one that completes the sender and no
\* ACK is left on the link for the sender's next reader.
NextLossy == Threads \/ LoseFrame \/ LoseAck

SpecLossy == Init /\ [][NextLossy]_vars /\ Fairness

\* a link that may lose every ACK in flight, any number of times
AckVanishes ==
    /\ ackChan # <<>>
    /\ ackChan' = Tail(ackChan)
    /\ UNCHANGED <<dir, sessionVars, adjustLog, windowVars, sendVars, dataChan, faults,
                   recvVars>>

NextNoAcks == SenderBurstCounted \/ OtherThreads \/ AckVanishes

SpecNoAcks == Init /\ [][NextNoAcks]_vars

\* the same link when it loses data frames only
NextFrameLoss == Threads \/ LoseFrame

SpecFrameLoss == Init /\ [][NextFrameLoss]_vars /\ Fairness

\* one iteration of the sender loop whose serial write succeeds
SenderBurstOk == SenderBurst /\ faults' = faults

\* the threads when every serial write succeeds
ThreadsOk ==
    \/ SenderBurstOk
    \/ SenderExit
    \/ ListenerAck
    \/ ListenerExit
    \/ MonitorStop
    \/ MonitorJoin
    \/ RecvRead
    \/ RecvValidate
    \/ RecvPeerNextRead

\* a link that loses and corrupts nothing
NextClean == ThreadsOk

SpecClean == Init /\ [][NextClean]_vars

\* a link that flips payload bits, under serial writes that all succeed
NextCorruptOk == ThreadsOk \/ SenderPeerNextRead \/ CorruptPayload

SpecCorruptOk == Init /\ [][NextCorruptOk]_vars

\* the frames i..NumFrames-1 of Phase 1, which the client wrote once more
\* before their ACKs reached it
Resent(i) == [j \in 1..(NumFrames - i) |-> PreparedFrame("c2s", i + j - 1)]

\* Phase 2 at the server: its Phase 1 loop has stored every frame and is
\* left, and the frames the client re-sent are still in its receive buffer
InitBoundary == \E i \in 0..NumFrames : InitWith("s2c", Resent(i))

\* Phase 2 on a link that loses and corrupts nothing
NextBoundary == ThreadsOk \/ ListenerMisread \/ ListenerTimeout

\* the same phase on a link with every kind of fault
NextAnyStream == Next \/ ListenerMisread \/ ListenerTimeout

SpecAnyStream == InitBoundary /\ [][NextAnyStream]_vars

FairBoundary ==
    /\ Fairness
    /\ WF_vars(SenderBurstOk)
    /\ WF_vars(ListenerMisread)
    /\ WF_vars(ListenerTimeout)

SpecBoundary == InitBoundary /\ [][NextBoundary]_vars /\ FairBoundary

(***************************************************************************)
(* The WindowManager alone, under any sequence of calls.                   *)
(***************************************************************************)
RttValues == {0, RttAssumed, RttHigh, RttHigh + 1}

WinAdjust ==
    /\ \E success \in BOOLEAN, rtt \in RttValues :
          LET r == adjustWindow(windowSize, consecutiveSuccesses,
                                consecutiveFailures, success, rtt)
          IN  /\ windowSize' = r.size
              /\ consecutiveSuccesses' = r.succ
              /\ consecutiveFailures' = r.fail
              /\ adjustLog' = Logged(adjustLog, success, rtt, windowSize)
    /\ UNCHANGED <<dir, sessionVars, baseSeq, ackedFrames, sendVars, linkVars, recvVars>>

WinMarkAcked ==
    /\ \E frameNum \in (-1)..NumFrames :
          ackedFrames' = MarkedMap(ackedFrames, frameNum)
    /\ UNCHANGED <<dir, sessionVars, adjustLog, baseSeq, windowSize, consecutiveSuccesses,
                   consecutiveFailures, sendVars, linkVars, recvVars>>

WinSlide ==
    /\ LET s == slideWindow(ackedFrames, baseSeq)
       IN  /\ ackedFrames' = s.acked
           /\ baseSeq' = s.base
    /\ UNCHANGED <<dir, sessionVars, adjustLog, windowSize, consecutiveSuccesses, consecutiveFailures,
                   sendVars, linkVars, recvVars>>

NextWin == WinAdjust \/ WinMarkAcked \/ WinSlide

SpecWin == Init /\ [][NextWin]_vars

(***************************************************************************)
(* The session: clientMode and serverMode from the opening of the port to  *)
(* the return of main.  The two transfer phases are modelled in full       *)
(* above; the session keeps of them which frames the sending peer has seen *)
(* acknowledged and which frames the receiving peer has stored.            *)
(***************************************************************************)
phaseVars == <<dir, windowVars, sendVars, linkVars, recvVars, adjustLog>>

\* what a step of the session leaves alone
transferVars == <<phaseVars, portVars, call>>

Msg(kind, n) == [kind |-> kind, n |-> n]

\* the versions a client binary may have been built with
Versions == {PROTOCOL_VERSION - 1, PROTOCOL_VERSION}

AllFrames == 0..(SessFrames - 1)

\* mutant: any version is accepted
VersionOkAny(v) == TRUE

\* settings.protocolVersion != PROTOCOL_VERSION, negated
VersionOk(v) == v = PROTOCOL_VERSION

\* mutant: the receive loop is left at once
ReceiveCompleteAtOnce(st) == TRUE

\* the receive loop's exit: the cursor has passed every frame
ReceiveComplete(st) == AllFrames \subseteq st

\* mutant: any 7 bytes are a READY frame
isReadyAckAny(m) == TRUE

\* the byte comparison of waitForReadyAck
isReadyAck(m) == m.kind = "READY"

\* mutant: one attempt more
RetryLeftFour(a) == a <= maxRetries + 1

\* the loop condition of readResults
RetryLeft(a) == a <= maxRetries

\* mutant: the wait gives up one attempt early
AttemptsLeftOneLess(a) == a < MAX_ATTEMPTS - 1

\* the loop condition of waitForReadyAck
AttemptsLeft(a) == a < MAX_ATTEMPTS

SendPhase(p) == IF p = "client" THEN "phase1" ELSE "phase2"
RecvPhase(p) == IF p = "client" THEN "phase2" ELSE "phase1"
AfterSend(p) == IF p = "client" THEN "phase2" ELSE "waitReady"
AfterRecv(p) == IF p = "client" THEN "sendReady" ELSE "phase2"
AfterWaitReady(p) == IF p = "client" THEN "writeResults" ELSE "sendReady"
AfterSendReady(p) == IF p = "client" THEN "waitReady" ELSE "readResults"
AfterReadResults(p) == IF p = "client" THEN "done" ELSE "writeResults"
AfterWriteResults(p) == IF p = "client" THEN "readResults" ELSE "done"

\* the frames of a set in increasing order
RECURSIVE InOrder(_)
InOrder(ks) ==
    IF ks = {} THEN <<>>
    ELSE LET k == CHOOSE x \in ks : \A y \in ks : x <= y
         IN  <<Msg("DATA", k)>> \o InOrder(ks \ {k})

Put(p, m) == [link EXCEPT ![p] = Append(@, m)]
Take(p) == [link EXCEPT ![p] = Tail(@)]

\* serial.open fails: the mode function returns
OpenFails(p) ==
    /\ pc[p] = "open"
    /\ pc' = [pc EXCEPT ![p] = "aborted"]
    /\ UNCHANGED <<transferVars, link, acked, stored, attempts, attempt, exitCode, wrote,
                   readKinds, linkFaults>>

\* the client opens the port and writes its Settings record
ClientConnect ==
    /\ pc["client"] = "open"
    /\ \E v \in Versions : link' = Put("server", Msg("SETTINGS", v))
    /\ wrote' = [wrote EXCEPT !["client"] = @ \cup {"SETTINGS"}]
    /\ pc' = [pc EXCEPT !["client"] = "waitAck"]
    /\ UNCHANGED <<transferVars, acked, stored, attempts, attempt, exitCode, readKinds,
                   linkFaults>>

\* the server opens the port and waits for the Settings record
ServerListen ==
    /\ pc["server"] = "open"
    /\ pc' = [pc EXCEPT !["server"] = "waitSettings"]
    /\ UNCHANGED <<transferVars, link, acked, stored, attempts, attempt, exitCode, wrote,
                   readKinds, linkFaults>>

\* the server reads the Settings record, checks the version, writes "ACK"
ServerReadSettings ==
    /\ pc["server"] = "waitSettings"
    /\ link["server"] # <<>>
    /\ LET m == Head(link["server"])
       IN  IF m.kind = "SETTINGS" /\ VersionOk(m.n)
           THEN /\ link' = [link EXCEPT !["server"] = Tail(@),
                                        !["client"] = Append(@, Msg("ACK", 0))]
                /\ wrote' = [wrote EXCEPT !["server"] = @ \cup {"ACK"}]
                /\ readKinds' = [readKinds EXCEPT !["server"] =
                                   IF m.n # PROTOCOL_VERSION
                                   THEN @ \cup {"OTHER_VERSION"}
                                   ELSE @ \cup {"SETTINGS"}]
                /\ pc' = [pc EXCEPT !["server"] = "phase1"]
           ELSE /\ link' = Take("server")
                /\ pc' = [pc EXCEPT !["server"] = "aborted"]
                /\ readKinds' = [readKinds EXCEPT !["server"] =
                                   IF m.kind = "SETTINGS" /\ m.n # PROTOCOL_VERSION
                                   THEN @ \cup {"OTHER_VERSION"} ELSE @]
                /\ UNCHANGED wrote
    /\ UNCHANGED <<transferVars, acked, stored, attempts, attempt, exitCode, linkFaults>>

\* the 60-second read of the Settings record times out
ServerSettingsTimeout ==
    /\ pc["server"] = "waitSettings"
    /\ link["server"] = <<>>
    /\ pc' = [pc EXCEPT !["server"] = "aborted"]
    /\ UNCHANGED <<transferVars, link, acked, stored, attempts, attempt, exitCode, wrote,
                   readKinds, linkFaults>>

\* the client reads three bytes and compares them with "ACK"
ClientReadAck ==
    /\ pc["client"] = "waitAck"
    /\ link["client"] # <<>>
    /\ link' = Take("client")
    /\ IF Head(link["client"]).kind = "ACK"
       THEN /\ readKinds' = [readKinds EXCEPT !["client"] = @ \cup {"ACK"}]
            /\ pc' = [pc EXCEPT !["client"] = "phase1"]
       ELSE /\ pc' = [pc EXCEPT !["client"] = "aborted"]
            /\ UNCHANGED readKinds
    /\ UNCHANGED <<transferVars, acked, stored, attempts, attempt, exitCode, wrote,
                   linkFaults>>

\* the 10-second read of "ACK" times out
ClientAckTimeout ==
    /\ pc["client"] = "waitAck"
    /\ link["client"] = <<>>
    /\ pc' = [pc EXCEPT !["client"] = "aborted"]
    /\ UNCHANGED <<transferVars, link, acked, stored, attempts, attempt, exitCode, wrote,
                   readKinds, linkFaults>>

\* the sender thread of p writes the frames not yet acknowledged
SessSend(p) ==
    /\ pc[p] = SendPhase(p)
    /\ ~(AllFrames \subseteq acked[p])
    /\ Len(link[Other(p)]) < MaxChan
    /\ link' = [link EXCEPT ![Other(p)] = @ \o InOrder(AllFrames \ acked[p])]
    /\ wrote' = [wrote EXCEPT ![p] = @ \cup {"DATA"}]
    /\ UNCHANGED <<transferVars, pc, acked, stored, attempts, attempt, exitCode, readKinds,
                   linkFaults>>

\* the ACK listener of p reads 13 bytes; what is no ACK frame is dropped
SessListen(p) ==
    /\ pc[p] = SendPhase(p)
    /\ ~(AllFrames \subseteq acked[p])
    /\ link[p] # <<>>
    /\ link' = Take(p)
    /\ LET m == Head(link[p])
       IN  acked' = IF m.kind = "ACKFRAME" /\ m.n \in AllFrames
                    THEN [acked EXCEPT ![p] = @ \cup {m.n}]
                    ELSE acked
    /\ UNCHANGED <<transferVars, pc, stored, attempts, attempt, exitCode, wrote, readKinds,
                   linkFaults>>

\* the monitor of p sees isComplete() and stops the two threads
SessSendDone(p) ==
    /\ pc[p] = SendPhase(p)
    /\ AllFrames \subseteq acked[p]
    /\ pc' = [pc EXCEPT ![p] = AfterSend(p)]
    /\ UNCHANGED <<transferVars, link, acked, stored, attempts, attempt, exitCode, wrote,
                   readKinds, linkFaults>>

\* the receive loop of p reads a frame, ACKs it and stores it; what is no
\* data frame is dropped; the loop is left when every frame is stored
SessReceive(p) ==
    /\ pc[p] = RecvPhase(p)
    /\ link[p] # <<>>
    /\ LET m == Head(link[p])
       IN  IF m.kind = "DATA"
           THEN /\ Len(link[Other(p)]) <= MaxChan
                /\ link' = [link EXCEPT ![p] = Tail(@),
                                        ![Other(p)] = Append(@, Msg("ACKFRAME", m.n))]
                /\ wrote' = [wrote EXCEPT ![p] = @ \cup {"ACKFRAME"}]
                /\ stored' = [stored EXCEPT ![p] = @ \cup {m.n}]
                /\ pc' = [pc EXCEPT ![p] =
                            IF ReceiveComplete(stored[p] \cup {m.n})
                            THEN AfterRecv(p) ELSE @]
           ELSE /\ link' = Take(p)
                /\ UNCHANGED <<wrote, stored, pc>>
    /\ UNCHANGED <<transferVars, acked, attempts, attempt, exitCode, readKinds, linkFaults>>

\* sendReadyAck
SendReady(p) ==
    /\ pc[p] = "sendReady"
    /\ link' = Put(Other(p), Msg("READY", 0))
    /\ wrote' = [wrote EXCEPT ![p] = @ \cup {"READY"}]
    /\ pc' = [pc EXCEPT ![p] = AfterSendReady(p)]
    /\ UNCHANGED <<transferVars, acked, stored, attempts, attempt, exitCode, readKinds,
                   linkFaults>>

\* one iteration of waitForReadyAck that reads 7 bytes
WaitReadyRead(p) ==
    /\ pc[p] = "waitReady"
    /\ AttemptsLeft(attempts[p])
    /\ link[p] # <<>>
    /\ link' = Take(p)
    /\ LET m == Head(link[p])
       IN  IF isReadyAck(m)
           THEN /\ pc' = [pc EXCEPT ![p] = AfterWaitReady(p)]
                /\ readKinds' = [readKinds EXCEPT ![p] = @ \cup {m.kind}]
                /\ attempts' = [attempts EXCEPT ![p] = 0]
           ELSE /\ attempts' = [attempts EXCEPT ![p] = @ + 1]
                /\ UNCHANGED <<pc, readKinds>>
    /\ UNCHANGED <<transferVars, acked, stored, attempt, exitCode, wrote, linkFaults>>

\* one iteration of waitForReadyAck whose read times out
WaitReadyTimeout(p) ==
    /\ pc[p] = "waitReady"
    /\ AttemptsLeft(attempts[p])
    /\ link[p] = <<>>
    /\ attempts' = [attempts EXCEPT ![p] = @ + 1]
    /\ UNCHANGED <<transferVars, pc, link, acked, stored, attempt, exitCode, wrote,
                   readKinds, linkFaults>>

\* waitForReadyAck returns false: the mode function returns
WaitReadyGiveUp(p) ==
    /\ pc[p] = "waitReady"
    /\ ~AttemptsLeft(attempts[p])
    /\ pc' = [pc EXCEPT ![p] = "aborted"]
    /\ attempts' = [attempts EXCEPT ![p] = 0]
    /\ UNCHANGED <<transferVars, link, acked, stored, attempt, exitCode, wrote,
                   readKinds, linkFaults>>

\* the peer writes its Results record; a failed write is logged and the
\* peer goes on
WriteResults(p) ==
    /\ pc[p] = "writeResults"
    /\ \/ /\ link' = Put(Other(p), Msg("RESULTS", 0))
          /\ wrote' = [wrote EXCEPT ![p] = @ \cup {"RESULTS"}]
          /\ UNCHANGED linkFaults
       \/ /\ linkFaults < MaxFaults
          /\ linkFaults' = linkFaults + 1
          /\ UNCHANGED <<link, wrote>>
    /\ pc' = [pc EXCEPT ![p] = AfterWriteResults(p)]
    /\ UNCHANGED <<transferVars, acked, stored, attempts, attempt, exitCode, readKinds>>

\* one attempt of readResults that reads bytes: a full record ends the
\* loop, anything else is a partial read
ReadResultsRead(p) ==
    /\ pc[p] = "readResults"
    /\ RetryLeft(attempt[p])
    /\ link[p] # <<>>
    /\ link' = Take(p)
    /\ LET m == Head(link[p])
       IN  IF m.kind = "RESULTS"
           THEN /\ pc' = [pc EXCEPT ![p] = AfterReadResults(p)]
                /\ readKinds' = [readKinds EXCEPT ![p] = @ \cup {"RESULTS"}]
                /\ attempt' = [attempt EXCEPT ![p] = 1]
           ELSE /\ attempt' = [attempt EXCEPT ![p] = @ + 1]
                /\ UNCHANGED <<pc, readKinds>>
    /\ UNCHANGED <<transferVars, acked, stored, attempts, exitCode, wrote, linkFaults>>

\* one attempt of readResults whose 15-second read times out
ReadResultsTimeout(p) ==
    /\ pc[p] = "readResults"
    /\ RetryLeft(attempt[p])
    /\ link[p] = <<>>
    /\ attempt' = [attempt EXCEPT ![p] = @ + 1]
    /\ UNCHANGED <<transferVars, pc, link, acked, stored, attempts, exitCode, wrote,
                   readKinds, linkFaults>>

\* readResults returns false: the mode function returns
ReadResultsGiveUp(p) ==
    /\ pc[p] = "readResults"
    /\ ~RetryLeft(attempt[p])
    /\ pc' = [pc EXCEPT ![p] = "aborted"]
    /\ attempt' = [attempt EXCEPT ![p] = 1]
    /\ UNCHANGED <<transferVars, link, acked, stored, attempts, exitCode, wrote,
                   readKinds, linkFaults>>

\* the mode function has returned: main closes the log and returns 0
MainReturn(p) ==
    /\ pc[p] \in {"done", "aborted"}
    /\ exitCode[p] = -1
    /\ exitCode' = [exitCode EXCEPT ![p] = 0]
    /\ UNCHANGED <<transferVars, pc, link, acked, stored, attempts, attempt, wrote,
                   readKinds, linkFaults>>

\* the link loses what is in flight towards p
SessLose(p) ==
    /\ linkFaults < MaxFaults
    /\ \E i \in 1..Len(link[p]) : link' = [link EXCEPT ![p] = Remove(@, i)]
    /\ linkFaults' = linkFaults + 1
    /\ UNCHANGED <<transferVars, pc, acked, stored, attempts, attempt, exitCode, wrote,
                   readKinds>>

Handshake ==
    \/ ClientConnect
    \/ ServerListen
    \/ ServerReadSettings
    \/ ServerSettingsTimeout
    \/ ClientReadAck
    \/ ClientAckTimeout

SessionStep(p) ==
    \/ SessSend(p)
    \/ SessListen(p)
    \/ SessSendDone(p)
    \/ SessReceive(p)
    \/ SendReady(p)
    \/ WaitReadyRead(p)
    \/ WaitReadyTimeout(p)
    \/ WaitReadyGiveUp(p)
    \/ WriteResults(p)
    \/ ReadResultsRead(p)
    \/ ReadResultsTimeout(p)
    \/ ReadResultsGiveUp(p)
    \/ MainReturn(p)

NextSession ==
    \/ Handshake
    \/ \E p \in Peers : SessionStep(p)
    \/ \E p \in Peers : OpenFails(p)
    \/ \E p \in Peers : SessLose(p)

\* both processes run: every step of a peer that stays possible is taken
FairSession ==
    /\ WF_vars(Handshake)
    /\ \A p \in Peers : WF_vars(SessionStep(p))

\* the session starts with its first transfer phase ahead
InitSession == Init /\ dir = "c2s"

SpecSession == InitSession /\ [][NextSession]_vars /\ FairSession

(***************************************************************************)
(* SerialPort: read holds readMutex, write and flush hold writeMutex, each *)
(* in a std::lock_guard from the first statement of the call to its        *)
(* return.  The port is an object any thread of the peer may call: the     *)
(* sender thread writes, the ACK listener reads, the session reads, writes *)
(* and flushes.                                                            *)
(***************************************************************************)
PortOps(t) ==
    IF t = "sender" THEN {"write"}
    ELSE IF t = "listener" THEN {"read"}
    ELSE {"read", "write", "flush"}

\* mutant: the lock is taken whether it is held or not
LockFreeAlways(owner) == TRUE

\* std::lock_guard's constructor returns when the mutex is free
LockFree(owner) == owner = "free"

\* a thread calls read, write or flush and reaches the lock_guard
PortCall(p, t) ==
    /\ portPc[p][t] = Idle
    /\ \E op \in PortOps(t) :
          portPc' = [portPc EXCEPT ![p][t] = [op |-> op, at |-> "lock"]]
    /\ UNCHANGED <<phaseVars, modeVars, readMutex, writeMutex, call>>

\* the lock_guard takes the mutex of the call
PortLock(p, t) ==
    /\ portPc[p][t].at = "lock"
    /\ IF portPc[p][t].op = "read"
       THEN /\ LockFree(readMutex[p])
            /\ readMutex' = [readMutex EXCEPT ![p] = t]
            /\ UNCHANGED writeMutex
       ELSE /\ LockFree(writeMutex[p])
            /\ writeMutex' = [writeMutex EXCEPT ![p] = t]
            /\ UNCHANGED readMutex
    /\ portPc' = [portPc EXCEPT ![p][t].at = "io"]
    /\ UNCHANGED <<phaseVars, modeVars, call>>

\* the call returns, by any of its return statements: the lock_guard's
\* destructor releases the mutex
PortReturn(p, t) ==
    /\ portPc[p][t].at = "io"
    /\ IF portPc[p][t].op = "read"
       THEN /\ readMutex' = [readMutex EXCEPT ![p] = "free"]
            /\ UNCHANGED writeMutex
       ELSE /\ writeMutex' = [writeMutex EXCEPT ![p] = "free"]
            /\ UNCHANGED readMutex
    /\ portPc' = [portPc EXCEPT ![p][t] = Idle]
    /\ UNCHANGED <<phaseVars, modeVars, call>>

NextPort ==
    \E p \in Peers, t \in PortThreads :
       PortCall(p, t) \/ PortLock(p, t) \/ PortReturn(p, t)

SpecPort == Init /\ [][NextPort]_vars

(***************************************************************************)
(* Functions called on their own.  The arguments are drawn at the start,   *)
(* the step is the call.                                                   *)
(***************************************************************************)
\* the call has returned `out`
Returned(out) == [op |-> call.op, in |-> call.in, done |-> TRUE, out |-> out]

Pending(op) == call.op = op /\ ~call.done

\* a std::map<int, bool> over the keys ks: per key absent (0), false (1)
\* or true (2)
MapOf(f) == {<<k, f[k] = 2>> : k \in {x \in DOMAIN f : f[x] # 0}}

\* a WindowManager of n frames whose base has reached b, with any window
\* size adjustWindow produces and any content of ackedFrames
WindowStates ==
    {[total |-> n, base |-> b, window |-> w, acked |-> MapOf(f)] :
        n \in {MaxTotal - 1, MaxTotal}, b \in 0..MaxTotal,
        w \in {WINDOW_SIZE_MIN, 2 * WINDOW_SIZE_MIN, WINDOW_SIZE_INIT, WINDOW_SIZE_MAX},
        f \in [0..(MaxTotal - 1) -> 0..2]}

InitFrames ==
    /\ InitPhase("c2s", <<>>)
    /\ call \in {[op |-> "getFramesToSend", in |-> x, done |-> FALSE] :
                   x \in {y \in WindowStates : y.base <= y.total}}

CallGetFramesToSend ==
    /\ Pending("getFramesToSend")
    /\ call' = Returned(FramesInWindow(call.in.acked, call.in.base,
                                       call.in.window, call.in.total))
    /\ UNCHANGED <<phaseVars, modeVars, portVars>>

NextFrames == CallGetFramesToSend

SpecFrames == InitFrames /\ [][NextFrames]_vars

\* the sizes of frame 0 on both sides of every threshold of the burst
\* limit, the model's own and that of a 60000-byte payload
FrameSizes ==
    {frameSize, 1000, 1001, 10000, 10001, 50000, 50001,
     60000 + FRAME_OVERHEAD_V3}

\* a window over WINDOW_SIZE_INIT + 1 frames, one more than the largest
\* burst limit, with at most one frame acknowledged above the base
BurstWindows ==
    LET n == WINDOW_SIZE_INIT + 1
        all == {[total |-> n, base |-> b, window |-> w,
                 acked |-> {<<k, TRUE>> : k \in ks}] :
                   b \in 0..n,
                   w \in {WINDOW_SIZE_MIN, 2 * WINDOW_SIZE_MIN, WINDOW_SIZE_INIT,
                          WINDOW_SIZE_MAX},
                   ks \in {x \in SUBSET (1..(n - 1)) : Cardinality(x) <= 1}}
    IN  {x \in all : \A e \in x.acked : e[1] > x.base}

\* the counters of adjustWindow: at most one of them is not 0
Counters ==
    {[succ |-> c, fail |-> 0] : c \in 0..2} \cup
    {[succ |-> 0, fail |-> c] : c \in 1..2}

InitBurst ==
    /\ InitPhase("c2s", <<>>)
    /\ call \in {[op |-> "senderIteration",
                    in |-> [win |-> x, size |-> z, count |-> c, written |-> ok],
                    done |-> FALSE] :
                   x \in BurstWindows, z \in FrameSizes, c \in Counters,
                   ok \in BOOLEAN}

\* one iteration of the sender loop on its own: the list of its writes
\* (each the frame numbers whose serializations it holds, in their
\* order), what it adds to retransmitCount_, the window size and counters
\* it leaves, and the frames the next getFramesToSend returns.  The write
\* goes through whole or not, as `written` says.
CallSenderIteration ==
    /\ Pending("senderIteration")
    /\ LET w == call.in.win
           c == call.in.count
           framesToSend == FramesInWindow(w.acked, w.base, w.window, w.total)
           burstSize == BurstSize(framesToSend, burstLimit(call.in.size))
           failed == framesToSend # <<>> /\ ~call.in.written
           r == IF failed
                THEN adjustWindow(w.window, c.succ, c.fail, FALSE, 0)
                ELSE [size |-> w.window, succ |-> c.succ, fail |-> c.fail]
       IN  call' = Returned(
               [writes |-> IF framesToSend # <<>>
                           THEN <<[j \in 1..burstSize |-> framesToSend[j]]>>
                           ELSE <<>>,
                retransmits |-> IF failed THEN burstSize ELSE 0,
                window |-> r.size,
                count |-> [succ |-> r.succ, fail |-> r.fail],
                next |-> FramesInWindow(w.acked, w.base, r.size, w.total)])
    /\ UNCHANGED <<phaseVars, modeVars, portVars>>

NextBurst == CallSenderIteration

SpecBurst == InitBurst /\ [][NextBurst]_vars

(***************************************************************************)
(* The codec on bytes.  An int is 32 bits wide, two's complement, low byte *)
(* first; uint16_t and uint32_t likewise without the sign.  A bitmap with  *)
(* bit 31 set is beyond the integers of the model checker and is left out. *)
(***************************************************************************)
\* memcpy from an int: its four bytes, low byte first
Bytes32(n) == [i \in 1..4 |-> (n \div (256 ^ (i - 1))) % 256]

\* memcpy from a uint16_t
Bytes16(n) == <<n % 256, (n \div 256) % 256>>

\* mutant: the four bytes read high byte first
Int32BigEndian(b) ==
    b[4] + (256 * b[3]) + (65536 * b[2])
      + (16777216 * (IF b[1] >= 128 THEN b[1] - 256 ELSE b[1]))

\* memcpy into an int
Int32(b) ==
    b[1] + (256 * b[2]) + (65536 * b[3])
      + (16777216 * (IF b[4] >= 128 THEN b[4] - 256 ELSE b[4]))

\* memcpy into a uint32_t
UInt32(b) == b[1] + (256 * b[2]) + (65536 * b[3]) + (16777216 * b[4])

\* memcpy into a uint16_t
UInt16(b) == b[1] + (256 * b[2])

\* DataFrame(): the frame a failed deserialize leaves
DefaultFrame == [frameNum |-> 0, windowSize |-> 0, checksum |-> 0, payload |-> <<>>]

\* DataFrame::serialize
serializeBytes(f) ==
    <<SOF>> \o Bytes32(f.frameNum) \o Bytes16(f.windowSize)
            \o Bytes16(f.checksum) \o f.payload \o <<EOF_BYTE>>

\* DataFrame::deserialize(buffer, length) on a default-constructed frame
deserializeBytes(buffer, length) ==
    IF length < FRAME_OVERHEAD_V3
    THEN [ok |-> FALSE, frame |-> DefaultFrame]
    ELSE IF buffer[1] # SOF \/ buffer[length] # EOF_BYTE
    THEN [ok |-> FALSE, frame |-> DefaultFrame]
    ELSE [ok |-> TRUE,
          frame |-> [frameNum |-> Int32(SubSeq(buffer, 2, 5)),
                     windowSize |-> UInt16(SubSeq(buffer, 6, 7)),
                     checksum |-> UInt16(SubSeq(buffer, 8, 9)),
                     payload |-> SubSeq(buffer, 10, length - 1)]]

\* AckFrame(): the ACK a failed deserialize leaves
DefaultAck == [baseFrameNum |-> 0, bitmap |-> 0]

\* AckFrame::serialize; 65, 67, 75 are 'A', 'C', 'K'
ackSerializeBytes(a) ==
    <<SOF_ACK, 65, 67, 75>> \o Bytes32(a.baseFrameNum) \o Bytes32(a.bitmap)
                            \o <<EOF_BYTE>>

\* AckFrame::deserialize(buffer, length) on a default-constructed ACK
ackDeserializeBytes(buffer, length) ==
    IF length # ACK_FRAME_SIZE
    THEN [ok |-> FALSE, ack |-> DefaultAck]
    ELSE IF buffer[1] # SOF_ACK \/ buffer[13] # EOF_BYTE
    THEN [ok |-> FALSE, ack |-> DefaultAck]
    ELSE IF buffer[2] # 65 \/ buffer[3] # 67 \/ buffer[4] # 75
    THEN [ok |-> FALSE, ack |-> DefaultAck]
    ELSE [ok |-> TRUE,
          ack |-> [baseFrameNum |-> Int32(SubSeq(buffer, 5, 8)),
                   bitmap |-> UInt32(SubSeq(buffer, 9, 12))]]

\* values of an int: both ends of its range and both sides of each byte
Ints == {-2147483647 - 1, -1, 0, 1, 255, 256, 65535, 65536, 2147483647}

\* values of a uint16_t
Words == {0, 1, WINDOW_SIZE_INIT, 255, 256, 65535}

\* values of a uint32_t below 2^31
Bitmaps == {0, 1, 2, 5, 65536, 2147483647}

\* payloads of up to PayloadSize bytes, the bytes of SOF and EOF_BYTE
\* among them
Payloads == UNION {[1..n -> {0, SOF, EOF_BYTE, 255}] : n \in 0..PayloadSize}

DataFrames ==
    {[frameNum |-> k, windowSize |-> w, checksum |-> c, payload |-> p] :
        k \in Ints, w \in Words, c \in Words, p \in Payloads}

AckFrames == {[baseFrameNum |-> k, bitmap |-> b] : k \in Ints, b \in Bitmaps}

EdgeBytes == {0, SOF, EOF_BYTE, SOF_ACK}

\* buffers handed to DataFrame::deserialize: serialized frames, with a
\* right or a wrong checksum, under any first and last byte, and buffers
\* shorter than the overhead under any first and last byte
Buffers ==
    {[serializeBytes([frameNum |-> k, windowSize |-> WINDOW_SIZE_INIT,
                      checksum |-> c, payload |-> p])
        EXCEPT ![1] = a, ![FRAME_OVERHEAD_V3 + Len(p)] = z] :
        k \in {-1, 0}, c \in {0, 1}, p \in Payloads, a \in EdgeBytes, z \in EdgeBytes}
    \cup
    {[j \in 1..n |-> IF j = n THEN z ELSE IF j = 1 THEN a ELSE 0] :
        n \in 0..(FRAME_OVERHEAD_V3 - 1), a \in EdgeBytes, z \in EdgeBytes}

InitCodec ==
    /\ InitPhase("c2s", <<>>)
    /\ call \in
         {[op |-> "frameRoundTrip", in |-> f, done |-> FALSE] : f \in DataFrames}
         \cup {[op |-> "ackRoundTrip", in |-> a, done |-> FALSE] : a \in AckFrames}
         \cup {[op |-> "deserialize", in |-> b, done |-> FALSE] : b \in Buffers}

\* serialize, then deserialize with the length of the buffer
CallFrameRoundTrip ==
    /\ Pending("frameRoundTrip")
    /\ LET buffer == serializeBytes(call.in)
       IN  call' = Returned(deserializeBytes(buffer, Len(buffer)))
    /\ UNCHANGED <<phaseVars, modeVars, portVars>>

CallAckRoundTrip ==
    /\ Pending("ackRoundTrip")
    /\ LET buffer == ackSerializeBytes(call.in)
       IN  call' = Returned(ackDeserializeBytes(buffer, Len(buffer)))
    /\ UNCHANGED <<phaseVars, modeVars, portVars>>

CallDeserialize ==
    /\ Pending("deserialize")
    /\ call' = Returned(deserializeBytes(call.in, Len(call.in)))
    /\ UNCHANGED <<phaseVars, modeVars, portVars>>

NextCodec == CallFrameRoundTrip \/ CallAckRoundTrip \/ CallDeserialize

SpecCodec == InitCodec /\ [][NextCodec]_vars

(***************************************************************************)
(* SerialPort::calculateTimeout.  The transmit time is computed in double  *)
(* precision, (dataSize * 10.0 / baudRate) * 1000.0 * 2.5, and converted   *)
(* to a DWORD, which drops the fraction.  The quotient dataSize * 10 /     *)
(* baudRate is exact in binary when its reduced denominator is a power of  *)
(* two, and then so are the two products.  Otherwise each operation        *)
(* rounds: the error is far below 1 / baudRate, so a transmit time that is *)
(* no whole number of milliseconds is cut to the whole number below it,    *)
(* while one that is a whole number n comes out as n or as a value just    *)
(* below n, cut to n - 1, as the floating-point evaluation of the build    *)
(* decides.                                                                *)
(***************************************************************************)
RECURSIVE Gcd(_, _)
Gcd(a, b) == IF b = 0 THEN a ELSE Gcd(b, a % b)

RECURSIVE PowerOfTwo(_)
PowerOfTwo(n) == n = 1 \/ (n % 2 = 0 /\ PowerOfTwo(n \div 2))

\* dataSize * 10.0 / baudRate is a double without rounding
ExactQuotient(dataSize, baudRate) ==
    PowerOfTwo(baudRate \div Gcd(dataSize * 10, baudRate))

\* mutant: a safety factor of 2 in place of TIMEOUT_SAFETY_FACTOR
TransmitMsTimesTwo(dataSize, baudRate) == {(dataSize * 20000) \div baudRate}

\* static_cast<DWORD>(transmitTime): the values the conversion may give
TransmitMs(dataSize, baudRate) ==
    LET n == (dataSize * 25000) \div baudRate
    IN  IF (dataSize * 25000) % baudRate = 0 /\ ~ExactQuotient(dataSize, baudRate)
        THEN {n - 1, n}
        ELSE {n}

\* the two clamps of calculateTimeout
Clamped(timeout) ==
    IF timeout < 200 THEN 200 ELSE IF timeout > 60000 THEN 60000 ELSE timeout

\* the lengths the program reads and writes and lengths around them
Lengths ==
    (0..(frameSize + 1)) \cup
    {READY_ACK_LEN, 1000 + FRAME_OVERHEAD_V3, 15504, 23800, 31008,
     60000 + FRAME_OVERHEAD_V3}

BaudRates == {9600, 19200, 57600, 115200}

InitTimeout ==
    /\ InitPhase("c2s", <<>>)
    /\ call \in {[op |-> "calculateTimeout", in |-> [dataSize |-> n, baudRate |-> b],
                   done |-> FALSE] : n \in Lengths, b \in BaudRates}

CallCalculateTimeout ==
    /\ Pending("calculateTimeout")
    /\ \E t \in TransmitMs(call.in.dataSize, call.in.baudRate) :
          call' = Returned(Clamped(t + BASE_TIMEOUT_MS))
    /\ UNCHANGED <<phaseVars, modeVars, portVars>>

NextTimeout == CallCalculateTimeout

SpecTimeout == InitTimeout /\ [][NextTimeout]_vars

(***************************************************************************)
(* Properties.                                                             *)
(***************************************************************************)
ReceiveDone == recvPc = "done"

\* C1: whenever the receive loop has exited, the peer's received frame
\* count equals the frame count of the session.
C1_DeliveryCompleteness == ReceiveDone => receivedNum = NumFrames

\* C2: on a link that flips payload bits in flight (finitely often), the
\* transfer eventually completes with every frame received.
C2_DeliveryUnderCorruption == <>(ReceiveDone /\ receivedNum = NumFrames)

\* a frame that the checksum check or the payload-pattern check rejects
Invalid(f) ==
    \/ f.checksum # calculateChecksum(f.payload)
    \/ f.payload # PatternPayload(dir)

C4_ImmediateAck ==
    [][RecvRead =>
         LET f == Head(dataChan)
         IN  IF f.sof = SOF /\ f.eof = EOF_BYTE
             THEN /\ ackChan' = Append(ackChan,
                          [sof |-> SOF_ACK, lit |-> "ACK",
                           baseFrameNum |-> f.frameNum, bitmap |-> 1,
                           eof |-> EOF_BYTE])
                  /\ recvPc' = "validate"
                  /\ frame' = f
                  /\ UNCHANGED <<receivedFrames, nextExpectedFrame,
                                 receivedNum, totalReceivedBytes, errorCount>>
             ELSE ackChan' = ackChan /\ recvPc' = "loop"]_vars

\* C4 witness: the ACK of a frame is on the link while the frame, which
\* will fail the checksum check, is still to be validated
C4_Witness ==
    /\ recvPc = "validate"
    /\ ~verifyChecksum(frame)
    /\ ackChan # <<>>
    /\ ackChan[Len(ackChan)].baseFrameNum = frame.frameNum

\* C5: validating a frame whose number is already in the received map
\* leaves the map, the byte total, the frame count and the cursor as they
\* are, and the ACK for that number has been written.
C5_AtMostOnce ==
    [][(RecvValidate /\ Stored(receivedFrames, frame.frameNum))
         => /\ UNCHANGED <<receivedFrames, nextExpectedFrame, receivedNum,
                           totalReceivedBytes, errorCount>>
            /\ ackWritten
            /\ ackFrame = [baseFrameNum |-> frame.frameNum, bitmap |-> 1]]_vars

\* C5 witness: a duplicate is about to be validated
C5_Witness ==
    /\ recvPc = "validate"
    /\ Stored(receivedFrames, frame.frameNum)
    /\ ackWritten

\* C6: every stored frame carries the pattern of its direction and a
\* checksum equal to the one recomputed from its payload.
C6_ByteIntegrity ==
    \A g \in receivedFrames :
        /\ g.payload = PatternPayload(dir)
        /\ g.checksum = calculateChecksum(g.payload)

\* C6 witness: the server has rejected a corrupted copy and still stored
\* every frame of the session
C6_Witness ==
    /\ dir = "c2s"
    /\ errorCount > 0
    /\ \A k \in 0..(NumFrames - 1) : Stored(receivedFrames, k)

\* C7: on a link that loses finitely many frames and ACKs, the send phase
\* eventually reaches isComplete.
C7_SendPhaseCompletes == <>isComplete

\* C8: the window size stays within [WINDOW_SIZE_MIN, WINDOW_SIZE_MAX].
C8_WindowBounds ==
    WINDOW_SIZE_MIN <= windowSize /\ windowSize <= WINDOW_SIZE_MAX

\* C8 witness: the window is at the cap, one success short of the next
\* doubling
C8_Witness == windowSize = WINDOW_SIZE_MAX /\ consecutiveSuccesses = 2

\* C9: the window base never decreases and stays within [0, frame count].
C9_MonotoneBase ==
    /\ [](0 <= baseSeq /\ baseSeq <= totalFrames)
    /\ [][baseSeq' >= baseSeq]_vars

\* C9 witness: the base has reached the frame count with an acknowledged
\* entry at the frame count left behind
C9_Witness == baseSeq = totalFrames /\ isAcked(totalFrames)

\* C10: every acknowledged entry of the window's map is at or above base.
C10_AckedNotBelowBase ==
    \A e \in ackedFrames : e[2] => e[1] >= baseSeq

\* C11: a frame that slideWindow has moved the base past is in no later
\* result of getFramesToSend: every frame number the call returns is at
\* or above the base, in every state the two threads can reach.
C11_SlidPastNotSent ==
    \A i \in 1..Len(getFramesToSend) : getFramesToSend[i] >= baseSeq

\* the base has moved past frame 0 and the sender's next call returns frames
C11_Witness ==
    /\ baseSeq > 0
    /\ senderPc = "loop" /\ ~stopped
    /\ getFramesToSend # <<>>
    /\ \E i \in 1..Len(dataChan) : dataChan[i].frameNum < baseSeq

RunOf(kind, n) ==
    /\ Len(adjustLog) >= n
    /\ \A i \in (Len(adjustLog) - n + 1)..Len(adjustLog) :
          adjustLog[i].kind = kind
    /\ Len(adjustLog) > n => adjustLog[Len(adjustLog) - n].kind # kind

\* C12: after three consecutive adjustWindow(true, rtt <= 2000) calls the
\* window size is min(2 * w, 32), after three consecutive
\* adjustWindow(false, _) calls it is max(w / 2, 4), w being the size before
\* the first of the three; a run of one or two calls of one kind leaves the
\* size as it was before the run.
C12_AdaptationLaw ==
    /\ RunOf("ok", 3) => windowSize = Min(2 * adjustLog[1].before, WINDOW_SIZE_MAX)
    /\ RunOf("fail", 3) => windowSize = Max(adjustLog[1].before \div 2, WINDOW_SIZE_MIN)
    /\ \A kind \in {"ok", "fail"}, n \in 1..2 :
          RunOf(kind, n)
             => windowSize = adjustLog[Len(adjustLog) - n + 1].before

\* three failures have halved the doubled window, then floored it
C12_Witness ==
    /\ RunOf("fail", 3)
    /\ adjustLog[1].before = WINDOW_SIZE_MIN
    /\ windowSize = WINDOW_SIZE_MIN

\* both peers have left the transfer phase
PhaseOver == ReceiveDone /\ sessPc = "drained"

C20_CountersUnderCorruption ==
    (PhaseOver /\ faults > 0) => (retransmitCount >= 1 /\ errorCount >= 1)

\* the phase a position belongs to: handshake, client to server transfer,
\* server to client transfer, results exchange, and the end of the session
Rank(pos) ==
    CASE pos \in {"open", "waitSettings", "waitAck"} -> 0
      [] pos = "phase1" -> 1
      [] pos = "phase2" -> 2
      [] pos \in {"sendReady", "waitReady", "writeResults", "readResults"} -> 3
      [] pos \in {"done", "aborted"} -> 4

\* C13: a peer never moves to an earlier phase; the client has written a
\* data frame only after it read "ACK", and the server only after its
\* receive loop had stored every frame.
C13_PhaseOrder ==
    /\ []("DATA" \in wrote["client"] => "ACK" \in readKinds["client"])
    /\ []("DATA" \in wrote["server"] => AllFrames \subseteq stored["server"])
    /\ [][\A p \in Peers : Rank(pc'[p]) >= Rank(pc[p])]_vars

\* both peers have gone through every phase
C13_Witness ==
    /\ pc["client"] = "done" /\ pc["server"] = "done"
    /\ "DATA" \in wrote["client"] /\ "DATA" \in wrote["server"]

\* the server has read a Settings record of another protocol version
Mismatch == "OTHER_VERSION" \in readKinds["server"]

\* C14: when the server has read a Settings record whose version is not 4,
\* the server has aborted and has written nothing, the client is at its ACK
\* read or has aborted there and has written the Settings record only, and
\* the client does abort.
C14_VersionMismatch ==
    /\ [](Mismatch =>
            /\ pc["server"] = "aborted"
            /\ wrote["server"] = {}
            /\ pc["client"] \in {"waitAck", "aborted"}
            /\ wrote["client"] = {"SETTINGS"})
    /\ (Mismatch ~> pc["client"] = "aborted")

\* the version did not match and both peers have aborted
C14_Witness ==
    /\ Mismatch
    /\ pc["client"] = "aborted"
    /\ exitCode["server"] # -1

\* a peer is at, or past, its Results write or read
AtResults(p) ==
    \/ pc[p] \in {"writeResults", "readResults", "done"}
    \/ "RESULTS" \in wrote[p]
    \/ "RESULTS" \in readKinds[p]

\* C15: the client waits for READY only after it wrote its own, the server
\* writes READY only after it read the client's, and a peer writes or reads
\* Results only after it wrote its READY and read the other peer's.
C15_ReadyRendezvous ==
    /\ pc["client"] = "waitReady" => "READY" \in wrote["client"]
    /\ "READY" \in wrote["server"] => "READY" \in readKinds["server"]
    /\ \A p \in Peers :
          AtResults(p) => "READY" \in wrote[p] /\ "READY" \in readKinds[p]

\* both READY frames have crossed and both Results are written
C15_Witness ==
    \A p \in Peers : "RESULTS" \in wrote[p] /\ "READY" \in readKinds[p]

\* the client's READY is written and gone while the server waits for it
LostReady ==
    /\ pc["server"] = "waitReady"
    /\ "READY" \in wrote["client"]
    /\ \A i \in 1..Len(link["server"]) : link["server"][i].kind # "READY"

\* C16: when the client's READY is lost, the server writes neither READY
\* nor Results and the client writes no Results; waitForReadyAck gives up
\* at MAX_ATTEMPTS attempts, and both sessions do abort.
C16_LostReady ==
    /\ [](LostReady =>
            /\ "READY" \notin wrote["server"]
            /\ "RESULTS" \notin wrote["server"]
            /\ "RESULTS" \notin wrote["client"])
    /\ [][\A p \in Peers :
            (pc[p] = "waitReady" /\ pc'[p] = "aborted")
               => attempts[p] = MAX_ATTEMPTS]_vars
    /\ (LostReady ~> (pc["server"] = "aborted" /\ pc["client"] = "aborted"))

\* the server finished its send phase, then both peers gave up on READY
C16_Witness ==
    /\ pc["server"] = "aborted" /\ pc["client"] = "aborted"
    /\ AllFrames \subseteq acked["server"]
    /\ "READY" \in wrote["client"]
    /\ "READY" \notin readKinds["server"]

\* C17: the client reads the server's Results only after writing its own,
\* the server writes its Results only after it read the client's full
\* record, readResults makes at most three attempts, returns true only on
\* a full record and makes the peer abort after the third failure.
C17_ResultsExchange ==
    /\ []("RESULTS" \in readKinds["client"] => "RESULTS" \in wrote["client"])
    /\ []("RESULTS" \in wrote["server"] => "RESULTS" \in readKinds["server"])
    /\ [](\A p \in Peers : attempt[p] <= maxRetries + 1)
    /\ [][\A p \in Peers :
            pc[p] = "readResults" /\ pc'[p] # "readResults"
               => IF link[p] # <<>> /\ link'[p] = Tail(link[p])
                     /\ Head(link[p]).kind = "RESULTS"
                  THEN pc'[p] = AfterReadResults(p)
                  ELSE pc'[p] = "aborted" /\ attempt[p] = maxRetries + 1]_vars

\* both Results have crossed
C17_Witness ==
    /\ "RESULTS" \in readKinds["client"]
    /\ "RESULTS" \in readKinds["server"]

\* C18: a process that has returned from main returned 0 exactly when both
\* Results were written.
C18_ExitCode ==
    \A p \in Peers :
        exitCode[p] # -1 =>
            (exitCode[p] = 0 <=>
                ("RESULTS" \in wrote["client"] /\ "RESULTS" \in wrote["server"]))

\* C21: in a send phase on a clean link with at least three frames and no
\* write failure, the window size is at its maximum when the phase is
\* complete, and the only change it makes on the way is the step from
\* WINDOW_SIZE_INIT (16) to WINDOW_SIZE_MAX (32).
C21_WindowGrowth ==
    /\ [](NumFrames >= 3 /\ isComplete => windowSize = WINDOW_SIZE_MAX)
    /\ [][windowSize' # windowSize =>
             windowSize = WINDOW_SIZE_INIT /\ windowSize' = WINDOW_SIZE_MAX]_vars

\* the send phase is over and the window has grown on the way
C21_Witness ==
    /\ NumFrames >= 3
    /\ sessPc = "drained"
    /\ faults = 0
    /\ windowSize = WINDOW_SIZE_MAX
    /\ Len(adjustLog) = 3
    /\ \A i \in 1..3 : adjustLog[i].kind = "ok"
    /\ adjustLog[3].before = WINDOW_SIZE_INIT

\* the threads of peer p inside the I/O of one of the operations ops
InIo(p, ops) == {t \in PortThreads : portPc[p][t].at = "io" /\ portPc[p][t].op \in ops}

\* C22: on one serial endpoint at most one thread is inside a read, and at
\* most one thread is inside a write or a flush.
C22_LinkMutualExclusion ==
    \A p \in Peers :
       /\ Cardinality(InIo(p, {"read"})) <= 1
       /\ Cardinality(InIo(p, {"write", "flush"})) <= 1

\* the sender thread is inside a write while the ACK listener is inside a
\* read on the same endpoint, and the session waits for the write lock
C22_Witness ==
    \E p \in Peers :
       /\ portPc[p]["sender"] = [op |-> "write", at |-> "io"]
       /\ portPc[p]["listener"] = [op |-> "read", at |-> "io"]
       /\ portPc[p]["session"] = [op |-> "flush", at |-> "lock"]

\* C23: the sender thread, the ACK listener and the progress monitor leave
\* the send phase only when the window is complete, however often a frame
\* has gone out; and the base advances only in a step that takes a
\* well-formed ACK off the link, so a link that delivers no ACK keeps the
\* send phase running for ever.
C23_NoRetransmitCap ==
    /\ [](senderPc = "exit" \/ listenerPc = "exit" \/ sessPc # "monitor"
            => isComplete)
    /\ [][baseSeq' # baseSeq =>
             /\ ackChan # <<>>
             /\ ackDeserialize(Head(ackChan))
             /\ ackChan' = Tail(ackChan)]_vars

\* a frame has gone out more than MAX_RETRANSMIT_ATTEMPTS times, no ACK has
\* reached the listener, and the three threads are still in the send phase
C23_Witness ==
    /\ \E i \in DOMAIN txCount : txCount[i] > MAX_RETRANSMIT_ATTEMPTS
    /\ baseSeq = 0
    /\ adjustLog = <<>>
    /\ senderPc = "loop"
    /\ listenerPc = "loop"
    /\ sessPc = "monitor"
    /\ recvPc = "done"

\* what the reader of p is waiting for at its position in the session
Expected(p) ==
    CASE pc[p] = "waitSettings" -> "SETTINGS"
      [] pc[p] = "waitAck" -> "ACK"
      [] pc[p] = RecvPhase(p) -> "DATA"
      [] pc[p] = SendPhase(p) -> "ACKFRAME"
      [] pc[p] = "waitReady" -> "READY"
      [] pc[p] = "readResults" -> "RESULTS"
      [] OTHER -> "NONE"

\* a step in which p reads the message at the head of its side of the link
Reads(p) ==
    /\ link[p] # <<>>
    /\ link'[p] = Tail(link[p])
    /\ linkFaults' = linkFaults

\* C24: whatever a peer reads is what its reader of the moment waits for:
\* a data frame in its receive phase, an ACK frame in its send phase, READY
\* in the READY wait, a Results record in the Results read; no re-sent data
\* frame and no ACK of an earlier phase is consumed by a later reader.
C24_StreamAlignment ==
    [][\A p \in Peers : Reads(p) => Head(link[p]).kind = Expected(p)]_vars

\* C25: on a link that loses, corrupts and reorders nothing, under fair
\* scheduling of every thread, the send phase and the receive phase of
\* Phase 2 are eventually both over.
C25_CleanLinkLiveness == <>(sessPc = "drained" /\ recvPc = "done")

\* C26: every frame in the receiver's map has a frame number in
\* [0, frame_count), and neither the receiver's cursor nor its received
\* frame count exceeds the frame count.
C26_FrameNumInRange ==
    /\ \A g \in receivedFrames : g.frameNum \in 0..(NumFrames - 1)
    /\ nextExpectedFrame <= NumFrames
    /\ receivedNum <= NumFrames

\* the frames an ACK names: the set bits of its bitmap (bit 31 is set in no
\* bitmap of the model)
Named(a) == {k \in (a.baseFrameNum)..(a.baseFrameNum + 30) : ackIsAcked(a, k)}

\* the listener takes a well-formed ACK off the link
TakesAck ==
    /\ listenerPc = "loop"
    /\ WorkerRuns
    /\ Aligned(ackChan)
    /\ ackDeserialize(Head(ackChan))
    /\ ackChan' = Tail(ackChan)
    /\ faults' = faults

\* C27: an ACK that names no frame of [base, frame_count) -- only frames
\* slid past or negative numbers -- causes no adjustWindow call and leaves
\* the window size, both counters and the base as they are.
C27_StaleAckIgnored ==
    [][TakesAck /\ Named(Head(ackChan)) \cap (baseSeq..(NumFrames - 1)) = {}
         => UNCHANGED <<windowSize, consecutiveSuccesses, consecutiveFailures,
                        baseSeq, adjustLog>>]_vars

\* the frames the listener is to mark on the ACK a: base_frame_num + k with
\* bit k set, below the frame count and not yet acked
ToMark(a) ==
    {k \in (a.baseFrameNum)..(a.baseFrameNum + 30) :
        k < NumFrames /\ BitSet(a.bitmap, k - a.baseFrameNum) /\ ~isAcked(k)}

\* C28: on a well-formed ACK the listener marks exactly the frames of
\* ToMark; if there is none, nothing of the window changes; if there is
\* one or more, adjustWindow(true, 100) is called exactly once and then
\* slideWindow: the base moves over the acknowledged run that starts at it.
C28_ListenerProcessing ==
    [][TakesAck =>
         LET marked == ToMark(Head(ackChan))
             r == adjustWindow(windowSize, consecutiveSuccesses,
                               consecutiveFailures, TRUE, RttAssumed)
             ackedNow == {k \in (-2)..(NumFrames + 2) : isAcked(k)} \cup marked
         IN  IF marked = {}
             THEN UNCHANGED <<windowVars, adjustLog>>
             ELSE /\ adjustLog' = Logged(adjustLog, TRUE, RttAssumed, windowSize)
                  /\ windowSize' = r.size
                  /\ consecutiveSuccesses' = r.succ
                  /\ consecutiveFailures' = r.fail
                  /\ baseSeq' >= baseSeq
                  /\ baseSeq' <= NumFrames
                  /\ (baseSeq..(baseSeq' - 1)) \subseteq ackedNow
                  /\ baseSeq' < NumFrames => baseSeq' \notin ackedNow
                  /\ \A k \in (-2)..(NumFrames + 2) :
                        <<k, TRUE>> \in ackedFrames' <=>
                           k \in ackedNow /\ ~(baseSeq <= k /\ k < baseSeq')]_vars

\* one ACK with two bits set has marked frames 0 and 1: the base is at 2
\* after a single adjustWindow call
C28_Witness ==
    /\ baseSeq = 2
    /\ Len(adjustLog) = 1
    /\ adjustLog[1].kind = "ok"
    /\ consecutiveSuccesses = 1

\* 13 bytes that are an ACK frame: SOF_ACK, the literal "ACK", EOF_BYTE
WellFormed(q) ==
    /\ Aligned(q)
    /\ "lit" \in DOMAIN Head(q)
    /\ Head(q).sof = SOF_ACK
    /\ Head(q).lit = "ACK"
    /\ Head(q).eof = EOF_BYTE

\* an iteration of the listener loop whose read returns bytes: a whole
\* message, 13 bytes across messages, or fewer than 13 bytes
ListenerReads ==
    /\ listenerPc = "loop"
    /\ WorkerRuns
    /\ ackChan # <<>>
    /\ faults' = faults
    /\ \/ ackChan' = Tail(ackChan)
       \/ ackChan' = DropBytes(ackChan, ACK_FRAME_SIZE)
       \/ ackChan' = <<>>

\* C29: a read of the listener that returns a malformed ACK (wrong SOF_ACK,
\* wrong literal, wrong EOF) or fewer than 13 bytes changes neither the
\* base, nor the window size, nor the acked map, nor the two counters.
C29_MalformedAckIgnored ==
    [][ListenerReads /\ ~WellFormed(ackChan)
         => UNCHANGED <<windowVars, adjustLog>>]_vars

\* the listener has read 13 bytes that begin inside a data frame and end
\* inside the next message, and the window is as constructed
C29_Witness ==
    /\ ackChan # <<>>
    /\ "junk" \in DOMAIN Head(ackChan)
    /\ listenerPc = "loop"
    /\ baseSeq = 0
    /\ windowSize = WINDOW_SIZE_INIT
    /\ ackedFrames = {}
    /\ consecutiveSuccesses = 0
    /\ adjustLog = <<>>

\* a step of the WindowManager that is a slideWindow call: no adjustWindow
\* call and no markAcked call
SlideStep ==
    /\ UNCHANGED <<windowSize, consecutiveSuccesses, consecutiveFailures, adjustLog>>
    /\ ~ \E k \in (-1)..NumFrames :
            /\ ackedFrames' = MarkedMap(ackedFrames, k)
            /\ ackedFrames' # ackedFrames
            /\ baseSeq' = baseSeq

\* C30: slideWindow moves the base over exactly the maximal run of
\* acknowledged frames that starts at the old base and never beyond the
\* frame count, erases the entries it passes and leaves the other
\* acknowledgements alone, and returns the number of positions it moved;
\* isComplete is true iff the base has reached the frame count.
C30_Slide ==
    /\ [](isComplete <=> baseSeq >= NumFrames)
    /\ [][SlideStep =>
            /\ baseSeq' >= baseSeq
            /\ baseSeq' <= NumFrames
            /\ \A k \in baseSeq..(baseSeq' - 1) :
                  isAcked(k) /\ <<k, TRUE>> \notin ackedFrames'
            /\ baseSeq' < NumFrames => ~isAcked(baseSeq')
            /\ \A k \in ((-1)..NumFrames) \ (baseSeq..(baseSeq' - 1)) :
                  <<k, TRUE>> \in ackedFrames' <=> isAcked(k)
            /\ slideWindow(ackedFrames, baseSeq).slid = baseSeq' - baseSeq]_vars

\* the base stands behind a run of two frames, at a frame that is not
\* acknowledged while the frame number past the last one is
C30_Witness ==
    /\ baseSeq = 2
    /\ NumFrames > 2
    /\ <<0, TRUE>> \notin ackedFrames
    /\ <<1, TRUE>> \notin ackedFrames
    /\ <<2, FALSE>> \in ackedFrames
    /\ <<NumFrames, TRUE>> \in ackedFrames

Elements(q) == {q[j] : j \in 1..Len(q)}

Ascending(q) == \A j \in 1..(Len(q) - 1) : q[j] < q[j + 1]

\* C31: getFramesToSend returns, in ascending order and without repeats,
\* exactly the frame numbers k with base <= k < base + window size and
\* k < frame count that are not acknowledged at the moment of the call.
C31_FramesToSend ==
    (call.op = "getFramesToSend" /\ call.done) =>
        LET w == call.in
        IN  /\ Ascending(call.out)
            /\ Elements(call.out) =
                  {k \in (w.base)..(w.base + w.window - 1) :
                      k < w.total /\ <<k, TRUE>> \notin w.acked}

\* the window ends before the last frame, a frame inside it is
\* acknowledged, one has a false entry, and frames are returned
C31_Witness ==
    /\ call.op = "getFramesToSend"
    /\ call.done
    /\ call.in.base + call.in.window < call.in.total
    /\ <<call.in.base + 1, TRUE>> \in call.in.acked
    /\ <<call.in.base + 2, FALSE>> \in call.in.acked
    /\ Len(call.out) = call.in.window - 1

\* the step is a call adjustWindow(true, rtt) with rtt above 2000 ms
HighRttCall ==
    /\ adjustLog' = Logged(adjustLog, TRUE, RttHigh + 1, windowSize)
    /\ UNCHANGED <<baseSeq, ackedFrames>>

\* C32 as stated: a call adjustWindow(true, rtt) with rtt > 2000 halves
\* the window, floored at WINDOW_SIZE_MIN, relative to its value before
\* the call and resets consecutiveSuccesses, also when the call is the
\* third success in a row.
C32_HighRttHalves ==
    [][HighRttCall =>
          /\ windowSize' = Max(windowSize \div 2, WINDOW_SIZE_MIN)
          /\ consecutiveSuccesses' = 0]_vars

\* C32, amended: such a call resets both counters; it halves the window
\* (floored) when it is not the third success in a row, and when it is
\* the third the doubling comes first, so the window is left as the call
\* found it unless it was at WINDOW_SIZE_MAX, where it is halved.
C32_HighRttAfterGrowth ==
    [][HighRttCall =>
          /\ consecutiveSuccesses' = 0
          /\ consecutiveFailures' = 0
          /\ windowSize' =
                IF consecutiveSuccesses < 2
                THEN Max(windowSize \div 2, WINDOW_SIZE_MIN)
                ELSE IF windowSize = WINDOW_SIZE_MAX
                THEN WINDOW_SIZE_MAX \div 2
                ELSE windowSize]_vars

\* two successes at a normal RTT, then a third at a high RTT that found
\* the window at 16 and left it at 16
C32_Witness ==
    /\ Len(adjustLog) = 3
    /\ adjustLog[1].kind = "ok"
    /\ adjustLog[2].kind = "ok"
    /\ adjustLog[3] = [kind |-> "high", before |-> WINDOW_SIZE_INIT]
    /\ windowSize = WINDOW_SIZE_INIT
    /\ consecutiveSuccesses = 0

\* the unacknowledged frames of the window w
Unacked(w) ==
    {k \in (w.base)..(w.base + w.window - 1) :
        k < w.total /\ <<k, TRUE>> \notin w.acked}

\* the burst limit of the protocol for a frame of `size` bytes
BurstCap(size) ==
    CASE size > 50000 -> 1
      [] size <= 50000 /\ size > 10000 -> 4
      [] size <= 10000 /\ size > 1000 -> 8
      [] OTHER -> 16

\* C33: a sender iteration with frames to send issues exactly one write,
\* holding in ascending order the first min(|to_send|, burst_cap) frames
\* of the list, burst_cap being 1, 4, 8 or 16 by the frame size (1 for a
\* payload of 60000 bytes); the lowest unacknowledged frame is in it.
C33_BurstComposition ==
    (call.op = "senderIteration" /\ call.done) =>
        LET u == Unacked(call.in.win)
            cap == BurstCap(call.in.size)
            writes == call.out.writes
        IN  IF u = {} THEN writes = <<>>
            ELSE /\ Len(writes) = 1
                 /\ LET b == Elements(writes[1])
                    IN  /\ Ascending(writes[1])
                        /\ b \subseteq u
                        /\ Len(writes[1]) = Min(Cardinality(u), cap)
                        /\ \A x \in b, y \in u \ b : x < y
                        /\ \A y \in u : \E x \in b : x <= y
                        /\ call.in.size = 60000 + FRAME_OVERHEAD_V3 => Len(writes[1]) = 1

\* a 60010-byte frame, more than one frame to send with an acknowledged
\* frame among them, and the burst is the lowest of them alone
C33_Witness ==
    /\ call.op = "senderIteration"
    /\ call.done
    /\ call.in.size = 60000 + FRAME_OVERHEAD_V3
    /\ Cardinality(Unacked(call.in.win)) > 2
    /\ call.in.win.acked # {}
    /\ call.out.writes = <<(<<call.in.win.base>>)>>

\* the iteration has written a burst, whole or not
BurstWritten == call.op = "senderIteration" /\ call.done /\ call.out.writes # <<>>

\* what the iteration found and what it left, apart from the frames it
\* offers next
WriteOutcome(again(_, _)) ==
    BurstWritten =>
        LET in == call.in
            out == call.out
            burst == out.writes[1]
        IN  IF in.written
            THEN /\ out.retransmits = 0
                 /\ out.window = in.win.window
                 /\ out.count = in.count
            ELSE /\ out.retransmits = Len(burst)
                 /\ out.count.succ = 0
                 /\ out.count.fail = (in.count.fail + 1) % 3
                 /\ out.window = IF in.count.fail = 2
                                  THEN Max(in.win.window \div 2, WINDOW_SIZE_MIN)
                                  ELSE in.win.window
                 /\ again(burst, out)

\* every frame of the burst is among the frames offered next
AllAgain(burst, out) == Elements(burst) \subseteq Elements(out.next)

\* the frames of the burst inside the window the call left are among the
\* frames offered next, and nothing but them and frames above the burst
WindowAgain(burst, out) ==
    /\ {k \in Elements(burst) : k < call.in.win.base + out.window}
          \subseteq Elements(out.next)
    /\ out.window = call.in.win.window => SubSeq(out.next, 1, Len(burst)) = burst

ReadsBadFraming ==
    /\ recvPc = "loop"
    /\ dataChan # <<>>
    /\ ~deserialize(Head(dataChan))
    /\ dataChan' = Tail(dataChan)
    /\ faults' = faults

\* C35: in both roles, a full-length read with a wrong SOF or EOF byte
\* increments the receiver's error count by one, writes no ACK, and
\* leaves the received map, the received bytes and the cursor unchanged.
C35_FramingErrorBothRoles ==
    [][ReadsBadFraming =>
          /\ errorCount' = errorCount + 1
          /\ ackChan' = ackChan
          /\ UNCHANGED <<receivedFrames, totalReceivedBytes, nextExpectedFrame,
                         receivedNum>>]_vars

\* C36: at every point of a receive phase the received frame count equals
\* the cursor, every frame number below the cursor is in the received
\* map and the cursor itself is not, and each frame of the map is there
\* once with its bytes counted once: a frame above the cursor is buffered
\* and counts as received only when all frames below it are stored.
C36_Reassembly ==
    /\ receivedNum = nextExpectedFrame
    /\ \A k \in 0..(nextExpectedFrame - 1) : \E g \in receivedFrames : g.frameNum = k
    /\ ~ \E g \in receivedFrames : g.frameNum = nextExpectedFrame
    /\ \A g, h \in receivedFrames : g.frameNum = h.frameNum => g = h
    /\ totalReceivedBytes = Cardinality(receivedFrames) * (PayloadSize + 10)

\* frames 1 and 2 are buffered above the cursor while frame 0 is missing
C36_Witness ==
    /\ nextExpectedFrame = 0
    /\ receivedNum = 0
    /\ {g.frameNum : g \in receivedFrames} = {1, 2}
    /\ totalReceivedBytes = 2 * (PayloadSize + 10)

WorkersGone == senderPc = "exit" /\ listenerPc = "exit"

\* C37: once the window is complete and stop() has been called both
\* workers terminate; stop() returns only after both have terminated, so
\* that the window and the frame list, destroyed after stop(), outlive
\* them; a terminated worker stays terminated, and after stop() has
\* returned nothing writes a data frame or touches the window, the frame
\* list or the retransmit counter.
C37_WorkerLifecycle ==
    /\ (stopped /\ isComplete) ~> WorkersGone
    /\ [](sessPc = "drained" => WorkersGone)
    /\ [][/\ senderPc = "exit" => senderPc' = "exit"
          /\ listenerPc = "exit" => listenerPc' = "exit"
          /\ sessPc = "drained" =>
                /\ UNCHANGED <<windowVars, frames, retransmitCount>>
                /\ Len(dataChan') <= Len(dataChan)]_vars

\* stop() has returned and an ACK of the finished phase is still on the
\* link
C37_Witness ==
    /\ sessPc = "drained"
    /\ WorkersGone
    /\ ackChan # <<>>

\* C38: after every adjustWindow call both counters are within 0..2 and
\* at most one of them is not 0, and the window size is one of 4, 8, 16
\* and 32.
C38_AdaptationCounters ==
    /\ consecutiveSuccesses \in 0..2
    /\ consecutiveFailures \in 0..2
    /\ consecutiveSuccesses = 0 \/ consecutiveFailures = 0
    /\ windowSize \in {4, 8, 16, 32}

\* two failures in a row after the call that halved the window to 8
C38_Witness ==
    /\ consecutiveFailures = 2
    /\ consecutiveSuccesses = 0
    /\ windowSize = 8
    /\ Len(adjustLog) = 3
    /\ adjustLog[1] = [kind |-> "fail", before |-> WINDOW_SIZE_INIT]
    /\ adjustLog[2].kind = "fail"
    /\ adjustLog[3].kind = "fail"

\* C39: deserialize(serialize(F)) succeeds and yields F field for field,
\* for every data frame and every ACK frame; deserialization of a data
\* frame fails exactly when the length is below 10 or the first or last
\* byte is not SOF or EOF_BYTE, whatever the checksum.
C39_CodecRoundTrip ==
    call.done =>
        /\ call.op = "frameRoundTrip" => call.out.ok /\ call.out.frame = call.in
        /\ call.op = "ackRoundTrip" => call.out.ok /\ call.out.ack = call.in
        /\ call.op = "deserialize" =>
              LET n == Len(call.in)
              IN  ~call.out.ok <=>
                    \/ n < 10
                    \/ call.in[1] # SOF
                    \/ call.in[n] # EOF_BYTE

\* a frame with a negative number, a checksum that is not that of its
\* payload, and SOF and EOF_BYTE among its payload bytes has made the
\* round trip
C39_Witness ==
    /\ call.op = "frameRoundTrip"
    /\ call.done
    /\ call.in.frameNum < 0
    /\ call.in.payload = <<EOF_BYTE, SOF>>
    /\ call.in.checksum # calculateChecksum(call.in.payload)
    /\ call.out.frame = call.in

\* (len * 10 / baud) * 2.5 * 1000 + 500 in whole milliseconds, clamped
\* into [200, 60000]
DerivedTimeout(len, baud) ==
    LET t == ((len * 25000) \div baud) + 500
    IN  IF t < 200 THEN 200 ELSE IF t > 60000 THEN 60000 ELSE t

TimeoutReturned == call.op = "calculateTimeout" /\ call.done

====
